---------------------------- MODULE Spec2Model ----------------------------
(***************************************************************************)
(* A model of foobot2's command dispatcher (src/src/command_handler.rs),   *)
(* the store operations it reaches (src/src/database/mod.rs) and the       *)
(* Twitch connector's per-message task (src/src/platform/twitch.rs).       *)
(*                                                                         *)
(* Text.  A Rust String is modelled as a sequence of atoms.  An atom is a  *)
(* TLA+ string standing for a run of characters that holds no whitespace,  *)
(* no '$' and no ':' (a word, or a fixed piece of a format string); the    *)
(* atoms " ", "$" and ":" are those characters themselves.  The character  *)
(* U+2757 (heavy exclamation mark) is written as the atom "U+2757".        *)
(***************************************************************************)
EXTENDS Integers, Sequences, FiniteSets, TLC

(***************************************************************************)
(* Bounds of the model.                                                    *)
(***************************************************************************)
MaxTime == 1
NumTasks == 2
MaxActionLen == 4
MaxMessageLen == 2
MaxFilters == 2

VARIABLES
    channels,                \* rows of the channels table
    commands,                \* rows of the commands table
    redis_channels,          \* redis sets "channels:{platform}"
    users,                   \* rows of the users table
    users_cache,             \* Database.users_cache: id -> User
    user_identifiers_cache,  \* Database.user_identifiers_cache: identifier -> id
    now,                     \* seconds elapsed since CommandHandler.startup_time
    last,                    \* the connector's last message and what its task did
    tasks,                   \* the dispatch tasks spawned by the connector
    replies,                 \* per task, the texts given to reply_to_privmsg
    interp,                  \* a call of execute_command_action
    filters,                 \* PlatformHandler.filters: channel -> list of Filter
    send,                    \* the last call of send_to_channel
    bus,                     \* the messages published to redis, in order
    user_data,               \* rows of the user_data table
    web_sessions,            \* rows of the web_sessions table
    web_sessions_cache,      \* Database.web_sessions_cache: session id -> WebSession
    channels_cache,          \* Database.channels_cache: identifier -> Channel
    users_held,              \* every row the users table has held so far
    callers,                 \* the threads that call the store's lookups
    merger,                  \* the thread that calls merge_users
    loader                   \* the thread that calls load_channels_into_redis

vars == <<channels, commands, redis_channels, users, users_cache,
          user_identifiers_cache, now, last, tasks, replies, interp, filters,
          send, bus, user_data, web_sessions, web_sessions_cache, channels_cache,
          users_held, callers, merger, loader>>

\* The interpreter's and the platform handler's state.
handlerVars == <<interp, filters, send, bus>>

\* The tables and caches the dispatcher does not use, and the threads that
\* use them.
lookupVars == <<user_data, web_sessions, web_sessions_cache, channels_cache,
                users_held, callers, merger, loader>>

storeVars == <<channels, commands, redis_channels, users, users_cache,
               user_identifiers_cache>>

(***************************************************************************)
(* Rust's Option and Result.                                               *)
(***************************************************************************)
None == [some |-> FALSE]
Some(v) == [some |-> TRUE, val |-> v]
Ok(v) == [ok |-> TRUE, val |-> v]
Err(e) == [ok |-> FALSE, err |-> e]

(***************************************************************************)
(* String helpers.                                                         *)
(***************************************************************************)
is_empty(s) == Len(s) = 0

\* str::split_whitespace: the maximal runs of non-whitespace, in order.
RECURSIVE SplitFrom(_, _, _)
SplitFrom(s, i, cur) ==
    IF i > Len(s)
    THEN IF cur = <<>> THEN <<>> ELSE <<cur>>
    ELSE IF s[i] = " "
         THEN IF cur = <<>>
              THEN SplitFrom(s, i + 1, <<>>)
              ELSE <<cur>> \o SplitFrom(s, i + 1, <<>>)
         ELSE SplitFrom(s, i + 1, Append(cur, s[i]))

split_whitespace(s) == SplitFrom(s, 1, <<>>)

\* [&str]::join(sep)
RECURSIVE join(_, _)
join(parts, sep) ==
    IF parts = <<>> THEN <<>>
    ELSE IF Len(parts) = 1 THEN parts[1]
    ELSE parts[1] \o sep \o join(Tail(parts), sep)

\* Vec::insert(0, x)
insert_front(v, x) == <<x>> \o v

\* {:?} of a &str and of a Vec<&str>
debug_str(s) == <<"\"">> \o s \o <<"\"">>
debug_vec(v) ==
    <<"[">> \o join([i \in 1..Len(v) |-> debug_str(v[i])], <<",", " ">>) \o <<"]">>

\* {} of a u64, as one atom per value the model reaches
display_u64(n) == <<ToString(n)>>

(***************************************************************************)
(* Identifiers.                                                            *)
(***************************************************************************)
TwitchChannelName(login) == [platform |-> "twitch", channel |-> Some(login)]
get_platform_name(ci) == Some(ci.platform)
get_channel(ci) == ci.channel
DiscordGuildID(id) == [platform |-> "discord", channel |-> Some(id)]
TwitchID(id) == [variant |-> "TwitchID", value |-> id]

Permissions == {"Default", "ChannelMod"}

(***************************************************************************)
(* The store.  db is the record of the store and cache variables; every    *)
(* operation returns the store it leaves, what it returns and the store    *)
(* functions it called.  up is FALSE when the store's queries fail.        *)
(***************************************************************************)
BUILTIN_COMMANDS ==
    { <<"ping">>, <<"commands">>, <<"cmd">>, <<"command">>, <<"addcmd">>,
      <<"debug">>, <<"delcmd">>, <<"merge">>, <<"showcmd">>, <<"checkcmd">> }

DieselError(what) == [kind |-> "DieselError", cause |-> what]
InvalidValue == [kind |-> "InvalidValue"]

DatabaseErrorDisplay(e) ==
    IF e.kind = "DieselError"
    THEN <<"Database error: ", e.cause>>
    ELSE <<"Invalid value">>

Db == [channels |-> channels, commands |-> commands,
       redis_channels |-> redis_channels, users |-> users,
       users_cache |-> users_cache,
       user_identifiers_cache |-> user_identifiers_cache]

Ret(db, ret, calls) == [db |-> db, ret |-> ret, calls |-> calls]

\* body applied to the value of v, which is computed once (a let binding).
With(v, body(_)) == CHOOSE y \in { body(x) : x \in {v} } : TRUE

\* What r returns, as returned by the function named f that called it.
CalledFrom(f, r) == [r EXCEPT !.calls = <<f>> \o @]

ChannelRows(db, ci) ==
    { c \in db.channels :
        Some(c.platform) = get_platform_name(ci) /\ Some(c.channel) = get_channel(ci) }

\* A get_command that looks the name up in every channel's commands.
get_command_any_channel(db, up, channel_identifier, command) ==
    IF ~get_channel(channel_identifier).some
    THEN Ret(db, Ok(None), <<"get_command">>)
    ELSE IF ~up
    THEN Ret(db, Err(DieselError("connection lost")), <<"get_command">>)
    ELSE LET rows == { c \in db.commands : c.name = command }
         IN  Ret(db,
                 Ok(IF rows = {} THEN None ELSE Some(CHOOSE c \in rows : TRUE)),
                 <<"get_command">>)

get_command(db, up, channel_identifier, command) ==
    IF ~get_channel(channel_identifier).some
    THEN Ret(db, Ok(None), <<"get_command">>)
    ELSE IF ~up
    THEN Ret(db, Err(DieselError("connection lost")), <<"get_command">>)
    ELSE LET ids == { c.id : c \in ChannelRows(db, channel_identifier) }
             rows == { c \in db.commands : c.channel_id \in ids /\ c.name = command }
         IN  Ret(db,
                 Ok(IF rows = {} THEN None ELSE Some(CHOOSE c \in rows : TRUE)),
                 <<"get_command">>)

get_or_create_channel(db, up, channel_identifier) ==
    IF ~get_platform_name(channel_identifier).some
    THEN Ret(db, Ok(None), <<"get_or_create_channel">>)
    ELSE IF ~up
    THEN Ret(db, Err(DieselError("connection lost")), <<"get_or_create_channel">>)
    ELSE LET platform == get_platform_name(channel_identifier).val
             ch == get_channel(channel_identifier)
             channel == IF ch.some THEN ch.val ELSE ""
             rows == { c \in db.channels : c.platform = platform /\ c.channel = channel }
             new_channel == [id |-> Cardinality(db.channels) + 1,
                             platform |-> platform, channel |-> channel]
         IN  IF rows # {}
             THEN Ret(db, Ok(Some(CHOOSE c \in rows : TRUE)), <<"get_or_create_channel">>)
             ELSE Ret([db EXCEPT !.channels = @ \cup {new_channel},
                                 !.redis_channels[platform] = @ \cup {channel}],
                      Ok(Some(new_channel)),
                      <<"get_or_create_channel">>)

\* An add_command that replaces the command stored under the name.
add_command_replaces(db, up, command) ==
    IF command.name \in BUILTIN_COMMANDS
    THEN Ret(db, Err(InvalidValue), <<"add_command">>)
    ELSE IF ~up
    THEN Ret(db, Err(DieselError("connection lost")), <<"add_command">>)
    ELSE Ret([db EXCEPT !.commands =
                 { c \in @ : ~(c.channel_id = command.channel_id /\ c.name = command.name) }
                 \cup {command}],
             Ok(<<>>), <<"add_command">>)

add_command(db, up, command) ==
    IF command.name \in BUILTIN_COMMANDS
    THEN Ret(db, Err(InvalidValue), <<"add_command">>)
    ELSE IF ~up
    THEN Ret(db, Err(DieselError("connection lost")), <<"add_command">>)
    ELSE IF \E c \in db.commands :
                c.channel_id = command.channel_id /\ c.name = command.name
    THEN Ret(db, Err(DieselError("UniqueViolation")), <<"add_command">>)
    ELSE Ret([db EXCEPT !.commands = @ \cup {command}], Ok(<<>>), <<"add_command">>)

NewCommand(name, action, permissions, channel_id, cooldown) ==
    [name |-> name, action |-> action, permissions |-> permissions,
     channel_id |-> channel_id, cooldown |-> cooldown]

DefaultCooldown == 5

add_command_to_channel(db, up, channel_identifier, trigger, action) ==
    With(get_or_create_channel(db, up, channel_identifier), LAMBDA ch :
        IF ~ch.ret.ok
        THEN CalledFrom("add_command_to_channel", ch)
        ELSE With(add_command(ch.db, up,
                              NewCommand(trigger, action, None, ch.ret.val.val.id,
                                         DefaultCooldown)), LAMBDA r :
                 Ret(r.db, r.ret, <<"add_command_to_channel">> \o ch.calls \o r.calls)))

update_command(db, up, command) ==
    IF ~up
    THEN Ret(db, Err(DieselError("connection lost")), <<"update_command">>)
    ELSE LET old == { c \in db.commands :
                        c.channel_id = command.channel_id /\ c.name = command.name }
         IN  Ret([db EXCEPT !.commands = (@ \ old) \cup {command}], Ok(<<>>),
                 <<"update_command">>)

\* A delete_command that deletes the name's commands in every channel.
delete_command_every_channel(db, up, channel_id, command_name) ==
    IF ~up
    THEN Ret(db, Err(DieselError("connection lost")), <<"delete_command">>)
    ELSE LET rows == { c \in db.commands : c.name = command_name }
         IN  IF Cardinality(rows) = 0
             THEN Ret(db, Err(InvalidValue), <<"delete_command">>)
             ELSE Ret([db EXCEPT !.commands = @ \ rows], Ok(<<>>), <<"delete_command">>)

delete_command(db, up, channel_id, command_name) ==
    IF ~up
    THEN Ret(db, Err(DieselError("connection lost")), <<"delete_command">>)
    ELSE LET rows == { c \in db.commands :
                         c.channel_id = channel_id /\ c.name = command_name }
         IN  IF Cardinality(rows) = 0
             THEN Ret(db, Err(InvalidValue), <<"delete_command">>)
             ELSE Ret([db EXCEPT !.commands = @ \ rows], Ok(<<>>), <<"delete_command">>)

delete_command_from_channel(db, up, channel_identifier, command_name) ==
    With(get_or_create_channel(db, up, channel_identifier), LAMBDA ch :
        IF ~ch.ret.ok
        THEN CalledFrom("delete_command_from_channel", ch)
        ELSE With(delete_command(ch.db, up, ch.ret.val.val.id, command_name), LAMBDA r :
                 Ret(r.db, r.ret,
                     <<"delete_command_from_channel">> \o ch.calls \o r.calls)))

(***************************************************************************)
(* Users: a row holds its id and, per identifier variant, the column that  *)
(* stores that variant's value.                                            *)
(***************************************************************************)
first_row(rows) == CHOOSE r \in rows : \A o \in rows : r.id <= o.id

get_user_by_id(db, up, user_id) ==
    IF user_id \in DOMAIN db.users_cache
    THEN Ret(db, Ok(Some(db.users_cache[user_id])), <<"get_user_by_id">>)
    ELSE IF ~up
    THEN Ret(db, Err(DieselError("connection lost")), <<"get_user_by_id">>)
    ELSE LET rows == { u \in db.users : u.id = user_id }
         IN  IF rows # {}
             THEN LET user == first_row(rows)
                  IN  Ret([db EXCEPT !.users_cache = (user_id :> user) @@ @],
                          Ok(Some(user)), <<"get_user_by_id">>)
             ELSE Ret(db, Ok(None), <<"get_user_by_id">>)

get_user(db, up, user_identifier) ==
    IF user_identifier \in DOMAIN db.user_identifiers_cache
    THEN CalledFrom("get_user",
                    get_user_by_id(db, up, db.user_identifiers_cache[user_identifier]))
    ELSE IF ~up
    THEN Ret(db, Err(DieselError("connection lost")), <<"get_user">>)
    ELSE LET rows == { u \in db.users :
                         u.ids[user_identifier.variant] = Some(user_identifier.value) }
         IN  IF rows # {}
             THEN LET user == first_row(rows)
                  IN  Ret([db EXCEPT !.user_identifiers_cache =
                                         (user_identifier :> user.id) @@ @],
                          Ok(Some(user)), <<"get_user">>)
             ELSE Ret(db, Ok(None), <<"get_user">>)

\* {:?} of Result<Option<User>, diesel::result::Error>
debug_user_result(r) ==
    IF ~r.ok THEN <<"Err(", r.err.cause, ")">>
    ELSE IF ~r.val.some THEN <<"Ok(None)">>
    ELSE <<"Ok(Some(User { id: ">> \o display_u64(r.val.val.id) \o <<" }))">>

(***************************************************************************)
(* CommandError, InquiryError and their Display.                           *)
(***************************************************************************)
MissingArgument(what) == [kind |-> "MissingArgument", arg |-> what]
InvalidArgument(what) == [kind |-> "InvalidArgument", arg |-> what]
NoPermissions == [kind |-> "NoPermissions"]
DatabaseError(e) == [kind |-> "DatabaseError", cause |-> e]
InquiryError(e) == [kind |-> "InquiryError", cause |-> e]
InquiryMissingArgument(what) == [kind |-> "MissingArgument", arg |-> what]

InquiryErrorDisplay(e) == <<"missing argument ">> \o e.arg

CommandErrorDisplay(e) ==
    CASE e.kind = "MissingArgument" -> <<"missing argument: ">> \o e.arg
      [] e.kind = "InvalidArgument" -> <<"invalid argument: ">> \o e.arg
      [] e.kind = "NoPermissions" ->
            <<"you don't have the permissions to use this command">>
      [] e.kind = "DatabaseError" ->
            <<"database error: ">> \o DatabaseErrorDisplay(e.cause)
      [] e.kind = "InquiryError" ->
            <<"inquiry error: ">> \o InquiryErrorDisplay(e.cause)

(***************************************************************************)
(* The action interpreter.                                                 *)
(***************************************************************************)
\* str::split(":"): the pieces between separators; never an empty list.
RECURSIVE SplitOn(_, _, _, _)
SplitOn(s, sep, i, cur) ==
    IF i > Len(s) THEN <<cur>>
    ELSE IF s[i] = sep
         THEN <<cur>> \o SplitOn(s, sep, i + 1, <<>>)
         ELSE SplitOn(s, sep, i + 1, Append(cur, s[i]))

split(s, sep) == SplitOn(s, sep, 1, <<>>)

make_inquiry_unknown_name_fails(inquiry, execution_context) ==
    With(split(inquiry, ":"), LAMBDA parts :
        IF parts[1] = <<"DO_SOMETHING">>
        THEN Ok(Some(<<"did something with ">> \o debug_vec(Tail(parts))))
        ELSE Err(InquiryMissingArgument(<<"inquiry">>)))

make_inquiry(inquiry, execution_context) ==
    LET parts == split(inquiry, ":")
    IN  IF Len(parts) = 0
        THEN Err(InquiryMissingArgument(<<"inquiry">>))
        ELSE LET name == parts[1]
                 args == Tail(parts)
             IN  IF name = <<"DO_SOMETHING">>
                 THEN Ok(Some(<<"did something with ">> \o debug_vec(args)))
                 ELSE Ok(None)

unwrap_or_default(o) == IF o.some THEN o.val ELSE <<>>

\* The position of the first space of s at or after i, or Len(s) + 1.
RECURSIVE NextSpace(_, _)
NextSpace(s, i) ==
    IF i > Len(s) \/ s[i] = " " THEN i ELSE NextSpace(s, i + 1)

RECURSIVE Scan_drops_last_space(_, _, _, _)
Scan_drops_last_space(action, i, response, execution_context) ==
    IF i > Len(action) THEN Ok(response)
    ELSE IF action[i] = "$"
    THEN LET j == NextSpace(action, i + 1)
             inquiry == SubSeq(action, i + 1, j - 1)
             r == make_inquiry(inquiry, execution_context)
         IN  IF ~r.ok
             THEN Err(InquiryError(r.err))
             ELSE Scan_drops_last_space(action, j + 1,
                       response \o unwrap_or_default(r.val)
                                \o (IF j > Len(action) THEN <<>> ELSE <<" ">>),
                       execution_context)
    ELSE Scan_drops_last_space(action, i + 1, Append(response, action[i]),
                               execution_context)

RECURSIVE Scan(_, _, _, _)
Scan(action, i, response, execution_context) ==
    IF i > Len(action) THEN Ok(response)
    ELSE IF action[i] = "$"
    THEN LET j == NextSpace(action, i + 1)
             inquiry == SubSeq(action, i + 1, j - 1)
             r == make_inquiry(inquiry, execution_context)
         IN  IF ~r.ok
             THEN Err(InquiryError(r.err))
             ELSE Scan(action, j + 1,
                       response \o unwrap_or_default(r.val) \o <<" ">>,
                       execution_context)
    ELSE Scan(action, i + 1, Append(response, action[i]), execution_context)

\* The response without the spaces at its end.
RECURSIVE trim_end(_)
trim_end(s) ==
    IF s # <<>> /\ s[Len(s)] = " " THEN trim_end(SubSeq(s, 1, Len(s) - 1)) ELSE s

execute_command_action_trimmed(action, execution_context) ==
    With(Scan(action, 1, <<>>, execution_context), LAMBDA r :
        IF ~r.ok THEN r
        ELSE IF ~is_empty(trim_end(r.val)) THEN Ok(Some(trim_end(r.val))) ELSE Ok(None))

\* An execute_command_action that returns None for a response of spaces only.
execute_command_action_blank_is_none(action, execution_context) ==
    With(Scan(action, 1, <<>>, execution_context), LAMBDA r :
        IF ~r.ok THEN r
        ELSE IF \E i \in 1..Len(r.val) : r.val[i] # " " THEN Ok(Some(r.val)) ELSE Ok(None))

execute_command_action(action, execution_context) ==
    With(Scan(action, 1, <<>>, execution_context), LAMBDA r :
        IF ~r.ok THEN r
        ELSE IF ~is_empty(r.val) THEN Ok(Some(r.val)) ELSE Ok(None))

(***************************************************************************)
(* The dispatcher.                                                         *)
(***************************************************************************)
ping(t) ==
    LET minutes == (t \div 60) % 60
        hours == (t \div 60) \div 60
        h == IF hours # 0 THEN display_u64(hours) \o <<"h ">> ELSE <<>>
        m == IF minutes # 0 THEN display_u64(minutes) \o <<"m ">> ELSE <<>>
        uptime == IF is_empty(h \o m) THEN display_u64(t) \o <<"s">> ELSE h \o m
    IN  <<"Pong! Uptime ">> \o uptime

\* cmd, for a caller whose permissions are ChannelMod
cmd_channel_mod(db, up, command, arguments, execution_context) ==
    LET sub == arguments[1]
    IN  IF sub \in { <<"add">>, <<"create">> }
        THEN IF Len(arguments) < 2
             THEN Ret(db, Err(MissingArgument(<<"command name">>)), <<>>)
             ELSE LET command_name == arguments[2]
                      command_action ==
                          join(SubSeq(arguments, 3, Len(arguments)), <<" ">>)
                  IN  IF is_empty(command_action)
                      THEN Ret(db, Err(MissingArgument(<<"command action">>)), <<>>)
                      ELSE With(add_command_to_channel(db, up,
                                    execution_context.channel, command_name,
                                    command_action), LAMBDA r :
                               IF r.ret.ok
                               THEN Ret(r.db, Ok(Some(<<"Command successfully added">>)),
                                        r.calls)
                               ELSE IF r.ret.err = DieselError("UniqueViolation")
                               THEN Ret(r.db, Ok(Some(<<"Command already exists">>)),
                                        r.calls)
                               ELSE Ret(r.db, Err(DatabaseError(r.ret.err)), r.calls))
        ELSE IF sub \in { <<"del">>, <<"delete">>, <<"remove">> }
        THEN IF Len(arguments) < 2
             THEN Ret(db, Err(MissingArgument(<<"command name">>)), <<>>)
             ELSE With(delete_command_from_channel(db, up,
                           execution_context.channel, arguments[2]), LAMBDA r :
                      IF r.ret.ok
                      THEN Ret(r.db, Ok(Some(<<"Command succesfully removed">>)), r.calls)
                      ELSE Ret(r.db, Err(DatabaseError(r.ret.err)), r.calls))
        ELSE Ret(db, Err(InvalidArgument(command)), <<>>)

cmd_without_permission_check(db, up, command, arguments, execution_context) ==
    CalledFrom("cmd",
        IF Len(arguments) = 0
        THEN Ret(db, Ok(Some(<<"Command list">>)), <<>>)
        ELSE cmd_channel_mod(db, up, command, arguments, execution_context))

cmd(db, up, command, arguments, execution_context) ==
    CalledFrom("cmd",
        IF Len(arguments) = 0
        THEN Ret(db, Ok(Some(<<"Command list">>)), <<>>)
        ELSE IF execution_context.permissions = "ChannelMod"
        THEN cmd_channel_mod(db, up, command, arguments, execution_context)
        ELSE Ret(db, Err(NoPermissions), <<>>))

\* The names run_command matches before it looks a command up in the store.
DispatcherNames ==
    { <<"ping">>, <<"whoami">>, <<"id">>, <<"cmd">>, <<"command">>, <<"commands">>,
      <<"addcmd">>, <<"cmdadd">>, <<"delcmd">>, <<"cmddel">> }

\* A run_command that passes the arguments of addcmd on as they are.
run_builtin_alias_not_rewritten(db, up, t, command, arguments, user_identifier, execution_context) ==
    CASE command = <<"ping">> -> Ret(db, Ok(Some(ping(t))), <<"ping">>)
      [] command \in { <<"whoami">>, <<"id">> } ->
            With(get_user(db, up, user_identifier), LAMBDA r :
                Ret(r.db,
                    Ok(Some(debug_user_result(r.ret) \o <<", permissions: ">>
                            \o <<execution_context.permissions>>)),
                    r.calls))
      [] command \in { <<"cmd">>, <<"command">>, <<"commands">> } ->
            cmd(db, up, command, arguments, execution_context)
      [] command \in { <<"addcmd">>, <<"cmdadd">> } ->
            cmd(db, up, <<"command">>, arguments, execution_context)
      [] command \in { <<"delcmd">>, <<"cmddel">> } ->
            cmd(db, up, <<"command">>, insert_front(arguments, <<"remove">>),
                execution_context)

\* run_command's arms for the names it matches itself
run_builtin(db, up, t, command, arguments, user_identifier, execution_context) ==
    CASE command = <<"ping">> -> Ret(db, Ok(Some(ping(t))), <<"ping">>)
      [] command \in { <<"whoami">>, <<"id">> } ->
            With(get_user(db, up, user_identifier), LAMBDA r :
                Ret(r.db,
                    Ok(Some(debug_user_result(r.ret) \o <<", permissions: ">>
                            \o <<execution_context.permissions>>)),
                    r.calls))
      [] command \in { <<"cmd">>, <<"command">>, <<"commands">> } ->
            cmd(db, up, command, arguments, execution_context)
      [] command \in { <<"addcmd">>, <<"cmdadd">> } ->
            cmd(db, up, <<"command">>, insert_front(arguments, <<"add">>),
                execution_context)
      [] command \in { <<"delcmd">>, <<"cmddel">> } ->
            cmd(db, up, <<"command">>, insert_front(arguments, <<"remove">>),
                execution_context)

run_stored_miss_is_error(db, up, command, execution_context) ==
    With(get_command(db, up, execution_context.channel, command), LAMBDA r :
        IF ~r.ret.ok
        THEN Ret(r.db, Err(DatabaseError(r.ret.err)), r.calls)
        ELSE IF r.ret.val.some
        THEN Ret(r.db, execute_command_action(r.ret.val.val.action, execution_context),
                 r.calls \o <<"execute_command_action">>)
        ELSE Ret(r.db, Err(InvalidArgument(command)), r.calls))

\* run_command's last arm: a command stored for the context's channel
run_stored(db, up, command, execution_context) ==
    With(get_command(db, up, execution_context.channel, command), LAMBDA r :
        IF ~r.ret.ok
        THEN Ret(r.db, Err(DatabaseError(r.ret.err)), r.calls)
        ELSE IF r.ret.val.some
        THEN Ret(r.db, execute_command_action(r.ret.val.val.action, execution_context),
                 r.calls \o <<"execute_command_action">>)
        ELSE Ret(r.db, Ok(None), r.calls))

run_command_store_first(db, up, t, command, arguments, user_identifier, execution_context) ==
    CalledFrom("run_command",
        With(run_stored(db, up, command, execution_context), LAMBDA s :
            IF command \in DispatcherNames /\ s.ret = Ok(None)
            THEN run_builtin(db, up, t, command, arguments, user_identifier,
                             execution_context)
            ELSE s))

run_command(db, up, t, command, arguments, user_identifier, execution_context) ==
    CalledFrom("run_command",
        IF command \in DispatcherNames
        THEN run_builtin(db, up, t, command, arguments, user_identifier,
                         execution_context)
        ELSE run_stored(db, up, command, execution_context))

\* What a dispatch task comes to: it returns an Option<String>, or it panics.
Returned(reply) == [panic |-> FALSE, reply |-> reply]
Panicked == [panic |-> TRUE]

empty_input_reply == Some(<<"U+2757">>)

error_reply_without_prefix(e) == Some(CommandErrorDisplay(e))

error_reply(e) == Some(<<"Error: ">> \o CommandErrorDisplay(e))

\* What handle_command_message leaves: the store, the task's outcome, the calls
\* made, and what run_command returned when it was called.
Handled(db, outcome, calls, run) ==
    [db |-> db, ret |-> outcome, calls |-> calls, run |-> run]

\* handle_command_message's else branch
dispatch_text(db, up, t, message_text, user_identifier, context) ==
    With(split_whitespace(message_text), LAMBDA splitted :
        IF Len(splitted) = 0
        THEN Handled(db, Panicked, <<>>, None)
        ELSE With(run_command(db, up, t, Head(splitted), Tail(splitted),
                              user_identifier, context), LAMBDA r :
                 Handled(r.db,
                         Returned(IF r.ret.ok THEN r.ret.val ELSE error_reply(r.ret.err)),
                         r.calls, Some(r.ret))))

handle_command_message_no_empty_check(db, up, t, message_text, user_identifier, context) ==
    dispatch_text(db, up, t, message_text, user_identifier, context)

handle_command_message(db, up, t, message_text, user_identifier, context) ==
    IF is_empty(message_text)
    THEN Handled(db, Returned(empty_input_reply), <<>>, None)
    ELSE dispatch_text(db, up, t, message_text, user_identifier, context)

(***************************************************************************)
(* The message filter and send_to_channel.  A message is a sequence of     *)
(* words and spaces, none of them part of another.  A filter's regex is    *)
(* one of the patterns below: a single word, which matches each occurrence *)
(* of that word, or "(", which does not compile.                           *)
(***************************************************************************)
Filter(regex, block_message, replacement) ==
    [regex |-> regex, block_message |-> block_message, replacement |-> replacement]

\* Regex::new: the compiled regex, or the error of an unclosed group.
Regex_new(pattern) ==
    IF pattern = <<"(">>
    THEN Err(<<"regex parse error: unclosed group">>)
    ELSE Ok([word |-> pattern[1]])

is_match(re, message) == \E i \in 1..Len(message) : message[i] = re.word

\* The atoms made only of letters, digits and '_': what a group reference in a
\* replacement may be called.
GroupNames == { "0", "ok", "bad", "compile" }

\* Captures::expand: "$$" is a '$', "$name" is the text of the group called
\* name (group 0 is the whole match, the patterns here have no other group, and
\* a group that does not exist gives the empty string), any other '$' stays.
RECURSIVE expand(_, _, _)
expand(replacement, i, matched) ==
    IF i > Len(replacement) THEN <<>>
    ELSE IF replacement[i] = "$" /\ i < Len(replacement)
                /\ replacement[i + 1] = "$"
    THEN <<"$">> \o expand(replacement, i + 2, matched)
    ELSE IF replacement[i] = "$" /\ i < Len(replacement)
                /\ replacement[i + 1] \in GroupNames
    THEN (IF replacement[i + 1] = "0" THEN <<matched>> ELSE <<>>)
             \o expand(replacement, i + 2, matched)
    ELSE <<replacement[i]>> \o expand(replacement, i + 1, matched)

\* Regex::replace_all with a &str replacement
RECURSIVE replace_from(_, _, _, _)
replace_from(re, message, i, replacement) ==
    IF i > Len(message) THEN <<>>
    ELSE (IF message[i] = re.word
          THEN expand(replacement, 1, message[i])
          ELSE <<message[i]>>)
             \o replace_from(re, message, i + 1, replacement)

replace_all(re, message, replacement) == replace_from(re, message, 1, replacement)

Placeholder == <<"[Blocked]">>

compile_failure(e) ==
    <<"failed", " ", "to", " ", "compile", " ", "message", " ", "filter", " ",
      "regex", ":", " ">> \o e

\* filter_message's loop that stops at a compile failure
RECURSIVE apply_filters_stops_at_failure(_, _, _)
apply_filters_stops_at_failure(list, i, message) ==
    IF i > Len(list) THEN message
    ELSE With(Regex_new(list[i].regex), LAMBDA re :
        IF re.ok
        THEN IF list[i].block_message
             THEN IF is_match(re.val, message)
                  THEN <<>>
                  ELSE apply_filters_stops_at_failure(list, i + 1, message)
             ELSE apply_filters_stops_at_failure(list, i + 1,
                      replace_all(re.val, message,
                                  IF list[i].replacement.some
                                  THEN list[i].replacement.val ELSE Placeholder))
        ELSE compile_failure(re.err))

\* filter_message's loop that does not break after a blocking match
RECURSIVE apply_filters_without_break(_, _, _)
apply_filters_without_break(list, i, message) ==
    IF i > Len(list) THEN message
    ELSE With(Regex_new(list[i].regex), LAMBDA re :
        IF re.ok
        THEN IF list[i].block_message
             THEN apply_filters_without_break(list, i + 1,
                      IF is_match(re.val, message) THEN <<>> ELSE message)
             ELSE apply_filters_without_break(list, i + 1,
                      replace_all(re.val, message,
                                  IF list[i].replacement.some
                                  THEN list[i].replacement.val ELSE Placeholder))
        ELSE apply_filters_without_break(list, i + 1, compile_failure(re.err)))

\* filter_message's loop over the channel's filters, from the i-th on
RECURSIVE apply_filters(_, _, _)
apply_filters(list, i, message) ==
    IF i > Len(list) THEN message
    ELSE With(Regex_new(list[i].regex), LAMBDA re :
        IF re.ok
        THEN IF list[i].block_message
             THEN IF is_match(re.val, message)
                  THEN <<>>
                  ELSE apply_filters(list, i + 1, message)
             ELSE apply_filters(list, i + 1,
                      replace_all(re.val, message,
                                  IF list[i].replacement.some
                                  THEN list[i].replacement.val ELSE Placeholder))
        ELSE apply_filters(list, i + 1, compile_failure(re.err)))

filter_message(fs, message, channel) ==
    IF channel \in DOMAIN fs THEN apply_filters(fs[channel], 1, message) ELSE message

OutgoingMessage(channel_id, contents) ==
    [channel_id |-> channel_id, contents |-> contents]

Unsupported == [kind |-> "Unsupported"]
PlatformError(what) == [kind |-> "PlatformError", cause |-> what]

\* env::var("OUTGOING_MESSAGES_CHANNEL_PREFIX").unwrap_or_else(..): the
\* variable's value, or the default prefix when it is not set.
outgoing_channel_prefix(prefix_var) ==
    IF prefix_var.some THEN prefix_var.val ELSE <<"messages.outgoing.">>

\* A send_to_channel that publishes on the default topic whatever is configured.
send_to_channel_default_topic(fs, channel, msg, bus_up, prefix_var) ==
    With(filter_message(fs, msg, channel), LAMBDA contents :
        IF ~bus_up
        THEN [ret |-> Err(PlatformError("connection lost")), published |-> <<>>,
              contents |-> contents, attempts |-> 1]
        ELSE [ret |-> Ok(<<>>),
              published |->
                  <<[topic |-> <<"messages.outgoing.", get_platform_name(channel).val>>,
                     message |-> OutgoingMessage(unwrap_or_default(get_channel(channel)),
                                                 contents)]>>,
              contents |-> contents, attempts |-> 1])

\* A send_to_channel that publishes again when the publish has failed.
send_to_channel_retries(fs, channel, msg, bus_up, prefix_var) ==
    With(filter_message(fs, msg, channel), LAMBDA contents :
        IF ~bus_up
        THEN [ret |-> Err(PlatformError("connection lost")), published |-> <<>>,
              contents |-> contents, attempts |-> 2]
        ELSE [ret |-> Ok(<<>>),
              published |->
                  <<[topic |-> outgoing_channel_prefix(prefix_var)
                                   \o <<get_platform_name(channel).val>>,
                     message |-> OutgoingMessage(unwrap_or_default(get_channel(channel)),
                                                 contents)]>>,
              contents |-> contents, attempts |-> 1])

\* send_to_channel: what it returns, what it publishes on which topic, and
\* how many times it called publish
send_to_channel(fs, channel, msg, bus_up, prefix_var) ==
    With(filter_message(fs, msg, channel), LAMBDA contents :
        IF ~get_platform_name(channel).some
        THEN [ret |-> Err(Unsupported), published |-> <<>>, contents |-> contents,
              attempts |-> 0]
        ELSE IF ~bus_up
        THEN [ret |-> Err(PlatformError("connection lost")), published |-> <<>>,
              contents |-> contents, attempts |-> 1]
        ELSE [ret |-> Ok(<<>>),
              published |->
                  <<[topic |-> outgoing_channel_prefix(prefix_var)
                                   \o <<get_platform_name(channel).val>>,
                     message |-> OutgoingMessage(unwrap_or_default(get_channel(channel)),
                                                 contents)]>>,
              contents |-> contents, attempts |-> 1])

RECURSIVE Strings(_, _)
Strings(atoms, n) ==
    IF n = 0 THEN { <<>> }
    ELSE LET shorter == Strings(atoms, n - 1)
         IN  shorter \cup { Append(x, c) : x \in shorter, c \in atoms }

MessageAtoms == { "bad", "compile", " " }
SendTexts == Strings(MessageAtoms, MaxMessageLen)

Patterns == { <<"bad">>, <<"compile">>, <<"(">> }
Replacements == { None, Some(<<"ok">>), Some(<<"$", "0">>) }
FilterRows ==
    { Filter(regex, TRUE, None) : regex \in Patterns } \cup
    { Filter(regex, FALSE, replacement) :
        regex \in Patterns, replacement \in Replacements }

RECURSIVE Lists(_, _)
Lists(rows, n) ==
    IF n = 0 THEN { <<>> }
    ELSE LET shorter == Lists(rows, n - 1)
         IN  shorter \cup { Append(x, r) : x \in shorter, r \in rows }

\* The filters loaded for channel "a"; channel "b" has no entry.
FilterConfigs ==
    { (TwitchChannelName("a") :> list) : list \in Lists(FilterRows, MaxFilters) }


(***************************************************************************)
(* Inputs.                                                                 *)
(***************************************************************************)
\* The text made of the given words, one space between them.
W(words) == join([i \in 1..Len(words) |-> <<words[i]>>], <<" ">>)

Texts ==
    { <<>>, <<" ">> } \cup
    { W(w) : w \in
        { <<"ping">>, <<"whoami">>, <<"hi">>,
          <<"cmd">>, <<"cmd", "add">>, <<"cmd", "add", "hi", "yo">>,
          <<"cmd", "remove", "hi">>, <<"cmd", "bogus">>,
          <<"addcmd", "hi", "yo">>, <<"delcmd", "hi">> } }

\* Other spellings of the built-in invocations.
AliasTexts ==
    { <<" ", "ping">> } \cup
    { W(w) : w \in
        { <<"id">>, <<"cmd", "create", "hi", "yo">>, <<"cmd", "del", "hi">>,
          <<"cmd", "delete", "hi">>, <<"command", "add", "hi", "yo">>,
          <<"commands", "remove", "hi">>, <<"cmdadd", "hi", "yo">>,
          <<"cmddel", "hi">> } }

\* Additions under a dispatcher's name, sent by a moderator.
BuiltinNameTexts ==
    { W(w) : w \in { <<"addcmd", "whoami", "yo">>, <<"addcmd", "ping", "yo">> } }

ChannelLogins == { "a", "b" }
SenderIds == { "7" }

Message(text, channel_login, is_mod, sender, up) ==
    [text |-> text, channel_login |-> channel_login, is_mod |-> is_mod,
     sender |-> sender, up |-> up]

\* The messages sent while the store's queries fail, and those sent in
\* channel "b".
FailingStoreMessages ==
    { Message(W(<<"hi">>), "a", FALSE, "7", FALSE),
      Message(W(<<"whoami">>), "a", FALSE, "7", FALSE),
      Message(W(<<"addcmd", "hi", "yo">>), "a", TRUE, "7", FALSE),
      Message(W(<<"delcmd", "hi">>), "a", TRUE, "7", FALSE) }
OtherChannelMessages ==
    { Message(W(<<"hi">>), "b", FALSE, "7", TRUE),
      Message(W(<<"addcmd", "hi", "yo">>), "b", TRUE, "7", TRUE) }

Messages ==
    { Message(text, "a", is_mod, s, TRUE) :
        text \in Texts \cup AliasTexts, is_mod \in BOOLEAN, s \in SenderIds } \cup
    { Message(text, "a", TRUE, s, TRUE) :
        text \in BuiltinNameTexts, s \in SenderIds } \cup
    FailingStoreMessages \cup OtherChannelMessages

\* The texts the concurrent dispatch tasks are given.
TaskTexts == { W(<<"hi">>), W(<<"addcmd", "hi", "yo">>) }

\* The prefix a Privmsg must start with to be dispatched.
command_prefix == <<"!">>

\* str::strip_prefix: the text after the prefix, or None without the prefix.
strip_prefix(text, prefix) ==
    IF Len(text) >= Len(prefix) /\ SubSeq(text, 1, Len(prefix)) = prefix
    THEN Some(SubSeq(text, Len(prefix) + 1, Len(text)))
    ELSE None

\* The message texts Twitch::run receives: commands behind the prefix, and a
\* chat line without it.
PrivmsgTexts == { command_prefix \o text : text \in TaskTexts } \cup { W(<<"hi">>) }

\* Channel "a" with a blocking filter on the word its stored command replies.
FiltersOnReply == TwitchChannelName("a") :> <<Filter(<<"yo">>, TRUE, None)>>

Tasks == 1..NumTasks

(***************************************************************************)
(* The store's lookups and merge_users, thread by thread.  A step is one   *)
(* operation on a cache or one statement on the database.                  *)
(***************************************************************************)
Callers == { "c1", "c2" }

DiscordID(id) == [variant |-> "DiscordID", value |-> id]
Variants == { "TwitchID", "DiscordID" }

\* The row of a user that owns the identifier alone.
NewUser(id, user_identifier) ==
    [id |-> id,
     ids |-> [v \in Variants |->
                 IF v = user_identifier.variant THEN Some(user_identifier.value)
                 ELSE None]]

\* User::merge: the user takes each identifier it lacks from the other.
merge(user, other) ==
    [user EXCEPT !.ids = [v \in Variants |->
                             IF user.ids[v].some THEN user.ids[v] ELSE other.ids[v]]]

\* The user_data rows left when the row of a user is deleted: those of the
\* other users.
delete_cascade(data, user_id) == { d \in data : d.user_id # user_id }

Owners(user_identifier) ==
    { u \in users : u.ids[user_identifier.variant] = Some(user_identifier.value) }

\* The id the users table gives its next row (AUTO_INCREMENT).
NextUserId == 1 + Cardinality(users_held)

UserData(user_id, name, value) == [user_id |-> user_id, name |-> name, value |-> value]
WebSession(session_id, user_id) == [session_id |-> session_id, user_id |-> user_id]

IdleCaller == [pc |-> "idle"]
IdleMerger == [pc |-> "idle"]

NoLookups ==
    /\ user_data = {}
    /\ web_sessions = {}
    /\ web_sessions_cache = <<>>
    /\ channels_cache = <<>>
    /\ users_held = users
    /\ callers = [c \in Callers |-> IdleCaller]
    /\ merger = IdleMerger
    /\ loader = [pc |-> "idle"]

\* The user A with identifier I1, the user B with identifier I2, and an
\* identifier no user owns.
I1 == TwitchID("1")
I2 == DiscordID("2")
I3 == TwitchID("3")
UserA == NewUser(1, I1)
UserB == NewUser(2, I2)

\* The merging thread, once another thread has moved since its call.
Disturbed == IF merger.pc = "idle" THEN merger ELSE [merger EXCEPT !.quiet = FALSE]

\* A thread calls one of the store's lookups.
Call(c, op, arg) ==
    /\ callers[c].pc = "idle"
    /\ callers' = [callers EXCEPT ![c] =
                      [pc |-> CASE op \in { "get_user", "get_or_create_user" } -> "ident_get"
                                [] op = "get_user_by_id" -> "id_get"
                                [] op = "get_web_session" -> "session_get"
                                [] op = "remove_web_session" -> "session_delete"
                                [] op = "get_channel" -> "channel_get",
                       op |-> op, arg |-> arg, stage |-> 1,
                       id |-> IF op = "get_user_by_id" THEN arg ELSE 0,
                       row |-> None, hit |-> FALSE, ret |-> None,
                       late |-> merger.pc = "done"]]
    /\ UNCHANGED <<users, users_cache, user_identifiers_cache, users_held,
                   web_sessions_cache, channels_cache>>

\* The call after get_user or get_user_by_id has returned the value:
\* get_or_create_user goes on to its insert when the first lookup found nobody,
\* and unwraps the second.
Resumed(call, value) ==
    IF call.op = "get_or_create_user" /\ value.ok
    THEN IF value.val.some
         THEN [call EXCEPT !.pc = "returned", !.ret = Ok(value.val.val)]
         ELSE IF call.stage = 1 THEN [call EXCEPT !.pc = "create"]
         ELSE [call EXCEPT !.pc = "panicked"]
    ELSE [call EXCEPT !.pc = "returned", !.ret = value]

\* get_user: user_identifiers_cache.get
IdentGet(c) ==
    /\ callers[c].pc = "ident_get"
    /\ callers' = [callers EXCEPT ![c] =
                      IF callers[c].arg \in DOMAIN user_identifiers_cache
                      THEN [@ EXCEPT !.pc = "id_get",
                                     !.id = user_identifiers_cache[callers[c].arg]]
                      ELSE [@ EXCEPT !.pc = "ident_query"]]
    /\ UNCHANGED <<users, users_cache, user_identifiers_cache, users_held,
                   web_sessions_cache, channels_cache>>

\* get_user: the query on the identifier's column
IdentQuery(c, up) ==
    /\ callers[c].pc = "ident_query"
    /\ callers' = [callers EXCEPT ![c] =
                      IF ~up THEN Resumed(@, Err(DieselError("connection lost")))
                      ELSE IF Owners(callers[c].arg) = {} THEN Resumed(@, Ok(None))
                      ELSE [@ EXCEPT !.pc = "ident_insert",
                                     !.row = Some(first_row(Owners(callers[c].arg)))]]
    /\ UNCHANGED <<users, users_cache, user_identifiers_cache, users_held,
                   web_sessions_cache, channels_cache>>

\* get_user: user_identifiers_cache.insert
IdentInsert(c) ==
    /\ callers[c].pc = "ident_insert"
    /\ user_identifiers_cache' =
          (callers[c].arg :> callers[c].row.val.id) @@ user_identifiers_cache
    /\ callers' = [callers EXCEPT ![c] = Resumed(@, Ok(callers[c].row))]
    /\ UNCHANGED <<users, users_cache, users_held, web_sessions_cache, channels_cache>>

\* get_user_by_id: users_cache.get
IdGet(c) ==
    /\ callers[c].pc = "id_get"
    /\ callers' = [callers EXCEPT ![c] =
                      IF callers[c].id \in DOMAIN users_cache
                      THEN Resumed([@ EXCEPT !.hit = TRUE], Ok(Some(users_cache[callers[c].id])))
                      ELSE [@ EXCEPT !.pc = "id_query"]]
    /\ UNCHANGED <<users, users_cache, user_identifiers_cache, users_held,
                   web_sessions_cache, channels_cache>>

\* get_user_by_id: the query on the id
IdQuery(c, up) ==
    /\ callers[c].pc = "id_query"
    /\ callers' = [callers EXCEPT ![c] =
                      IF ~up THEN Resumed(@, Err(DieselError("connection lost")))
                      ELSE IF { u \in users : u.id = callers[c].id } = {} THEN Resumed(@, Ok(None))
                      ELSE [@ EXCEPT !.pc = "id_insert",
                                     !.row = Some(first_row({ u \in users : u.id = callers[c].id }))]]
    /\ UNCHANGED <<users, users_cache, user_identifiers_cache, users_held,
                   web_sessions_cache, channels_cache>>

\* get_user_by_id: users_cache.insert
IdInsert(c) ==
    /\ callers[c].pc = "id_insert"
    /\ users_cache' = (callers[c].id :> callers[c].row.val) @@ users_cache
    /\ callers' = [callers EXCEPT ![c] = Resumed(@, Ok(callers[c].row))]
    /\ UNCHANGED <<users, user_identifiers_cache, users_held, web_sessions_cache,
                   channels_cache>>

\* get_or_create_user: the insert.  The table's definition is not part of
\* the sources: a row for an identifier that already has an owner is either
\* refused, and the expect panics, or stored next to the other.
Create(c, unique) ==
    /\ callers[c].pc = "create"
    /\ IF unique /\ Owners(callers[c].arg) # {}
       THEN /\ callers' = [callers EXCEPT ![c] = [@ EXCEPT !.pc = "panicked"]]
            /\ UNCHANGED <<users, users_held>>
       ELSE /\ users' = users \cup { NewUser(NextUserId, callers[c].arg) }
            /\ users_held' = users_held \cup { NewUser(NextUserId, callers[c].arg) }
            /\ callers' = [callers EXCEPT ![c] =
                              [@ EXCEPT !.pc = "ident_get", !.stage = 2]]
    /\ UNCHANGED <<users_cache, user_identifiers_cache, web_sessions_cache,
                   channels_cache>>

\* get_web_session: web_sessions_cache.get
SessionGet(c) ==
    /\ callers[c].pc = "session_get"
    /\ callers' = [callers EXCEPT ![c] =
                      IF callers[c].arg \in DOMAIN web_sessions_cache
                      THEN [@ EXCEPT !.pc = "returned", !.hit = TRUE,
                                     !.ret = Ok(Some(web_sessions_cache[callers[c].arg]))]
                      ELSE [@ EXCEPT !.pc = "session_query"]]
    /\ UNCHANGED <<users, users_cache, user_identifiers_cache, users_held,
                   web_sessions_cache, channels_cache>>

\* get_web_session: the query
SessionQuery(c, up) ==
    /\ callers[c].pc = "session_query"
    /\ callers' = [callers EXCEPT ![c] =
                      IF ~up
                      THEN [@ EXCEPT !.pc = "returned",
                                     !.ret = Err(DieselError("connection lost"))]
                      ELSE IF { s \in web_sessions : s.session_id = callers[c].arg } = {}
                      THEN [@ EXCEPT !.pc = "returned", !.ret = Ok(None)]
                      ELSE [@ EXCEPT !.pc = "session_insert",
                                     !.row = Some(CHOOSE s \in web_sessions :
                                                     s.session_id = callers[c].arg)]]
    /\ UNCHANGED <<users, users_cache, user_identifiers_cache, users_held,
                   web_sessions_cache, channels_cache>>

\* A get_web_session that returns the session it found without caching it.
SessionInsert_skipped(c) ==
    /\ callers[c].pc = "session_insert"
    /\ callers' = [callers EXCEPT ![c] = [@ EXCEPT !.pc = "returned", !.ret = Ok(callers[c].row)]]
    /\ UNCHANGED <<users, users_cache, user_identifiers_cache, users_held,
                   web_sessions_cache, channels_cache>>

\* get_web_session: web_sessions_cache.insert
SessionInsert(c) ==
    /\ callers[c].pc = "session_insert"
    /\ web_sessions_cache' = (callers[c].arg :> callers[c].row.val) @@ web_sessions_cache
    /\ callers' = [callers EXCEPT ![c] = [@ EXCEPT !.pc = "returned", !.ret = Ok(callers[c].row)]]
    /\ UNCHANGED <<users, users_cache, user_identifiers_cache, users_held,
                   channels_cache>>

\* remove_web_session: the delete
SessionDelete(c, up) ==
    /\ callers[c].pc = "session_delete"
    /\ IF up
       THEN /\ web_sessions' = { s \in web_sessions : s.session_id # callers[c].arg }
            /\ callers' = [callers EXCEPT ![c] = [@ EXCEPT !.pc = "session_evict"]]
       ELSE /\ callers' = [callers EXCEPT ![c] =
                              [@ EXCEPT !.pc = "returned",
                                        !.ret = Err(DieselError("connection lost"))]]
            /\ UNCHANGED web_sessions
    /\ merger' = Disturbed
    /\ UNCHANGED <<storeVars, user_data, web_sessions_cache, channels_cache, users_held,
                   now, last, tasks, replies, handlerVars, loader>>

\* remove_web_session: web_sessions_cache.remove
SessionEvict(c) ==
    /\ callers[c].pc = "session_evict"
    /\ web_sessions_cache' =
          [k \in DOMAIN web_sessions_cache \ { callers[c].arg } |-> web_sessions_cache[k]]
    /\ callers' = [callers EXCEPT ![c] = [@ EXCEPT !.pc = "returned", !.ret = Ok(<<>>)]]
    /\ merger' = Disturbed
    /\ UNCHANGED <<storeVars, user_data, web_sessions, channels_cache, users_held,
                   now, last, tasks, replies, handlerVars, loader>>

\* Database::get_channel: channels_cache.get, for an identifier with a channel
ChannelGet(c) ==
    /\ callers[c].pc = "channel_get"
    /\ callers' = [callers EXCEPT ![c] =
                      IF ~get_channel(callers[c].arg).some
                      THEN [@ EXCEPT !.pc = "returned", !.ret = Ok(None)]
                      ELSE IF callers[c].arg \in DOMAIN channels_cache
                      THEN [@ EXCEPT !.pc = "returned", !.hit = TRUE,
                                     !.ret = Ok(Some(channels_cache[callers[c].arg]))]
                      ELSE [@ EXCEPT !.pc = "channel_query"]]
    /\ UNCHANGED <<users, users_cache, user_identifiers_cache, users_held,
                   web_sessions_cache, channels_cache>>

\* Database::get_channel: the query
ChannelQuery(c, up) ==
    /\ callers[c].pc = "channel_query"
    /\ callers' = [callers EXCEPT ![c] =
                      IF ~up
                      THEN [@ EXCEPT !.pc = "returned",
                                     !.ret = Err(DieselError("connection lost"))]
                      ELSE IF ChannelRows(Db, callers[c].arg) = {}
                      THEN [@ EXCEPT !.pc = "returned", !.ret = Ok(None)]
                      ELSE [@ EXCEPT !.pc = "channel_insert",
                                     !.row = Some(first_row(ChannelRows(Db, callers[c].arg)))]]
    /\ UNCHANGED <<users, users_cache, user_identifiers_cache, users_held,
                   web_sessions_cache, channels_cache>>

\* Database::get_channel: channels_cache.insert
ChannelInsert(c) ==
    /\ callers[c].pc = "channel_insert"
    /\ channels_cache' = (callers[c].arg :> callers[c].row.val) @@ channels_cache
    /\ callers' = [callers EXCEPT ![c] = [@ EXCEPT !.pc = "returned", !.ret = Ok(callers[c].row)]]
    /\ UNCHANGED <<users, users_cache, user_identifiers_cache, users_held,
                   web_sessions_cache>>

\* merge_users(user, other) is called with the rows of the two users.
MergeCall(user, other) ==
    /\ merger.pc = "idle"
    /\ merger' = [pc |-> "remove_other", user |-> user, other |-> other,
                  quiet |-> TRUE, sessions |-> web_sessions_cache]
    /\ UNCHANGED <<users, users_cache, user_identifiers_cache, users_held, user_data>>

\* merge_users: users_cache.remove(&other.id)
MergeRemoveOther ==
    /\ merger.pc = "remove_other"
    /\ users_cache' = [id \in DOMAIN users_cache \ { merger.other.id } |-> users_cache[id]]
    /\ merger' = [merger EXCEPT !.pc = "replace_data"]
    /\ UNCHANGED <<users, user_identifiers_cache, users_held, user_data>>

\* A merge_users that does not copy the dropped user's data.
MergeReplaceData_skipped ==
    /\ merger.pc = "replace_data"
    /\ merger' = [merger EXCEPT !.pc = "delete_other"]
    /\ UNCHANGED <<users, users_cache, user_identifiers_cache, users_held, user_data>>

\* merge_users: REPLACE INTO user_data ... SELECT ... WHERE user_id = other.id
MergeReplaceData ==
    /\ merger.pc = "replace_data"
    /\ user_data' =
          { d \in user_data :
              ~(/\ d.user_id = merger.user.id
                /\ \E o \in user_data : o.user_id = merger.other.id /\ o.name = d.name) }
          \cup { UserData(merger.user.id, o.name, o.value) :
                   o \in { d \in user_data : d.user_id = merger.other.id } }
    /\ merger' = [merger EXCEPT !.pc = "delete_other"]
    /\ UNCHANGED <<users, users_cache, user_identifiers_cache, users_held>>

\* merge_users: diesel::delete(&other), with the user_data rows of the deleted
\* user, and user.merge(other)
MergeDelete ==
    /\ merger.pc = "delete_other"
    /\ users' = { u \in users : u.id # merger.other.id }
    /\ user_data' = delete_cascade(user_data, merger.other.id)
    /\ merger' = [merger EXCEPT !.pc = "update_user",
                                !.user = merge(merger.user, merger.other)]
    /\ UNCHANGED <<users_cache, user_identifiers_cache, users_held>>

\* merge_users: diesel::update(users.filter(id = user.id)).set(&user)
MergeUpdate ==
    /\ merger.pc = "update_user"
    /\ users' = { IF u.id = merger.user.id THEN merge(u, merger.user) ELSE u : u \in users }
    /\ users_held' =
          users_held \cup { merge(u, merger.user) : u \in { r \in users : r.id = merger.user.id } }
    /\ merger' = [merger EXCEPT !.pc = "remove_user"]
    /\ UNCHANGED <<users_cache, user_identifiers_cache, user_data>>

\* A merge_users that leaves the kept user's cache entry in place.
MergeRemoveUser_skipped ==
    /\ merger.pc = "remove_user"
    /\ merger' = [merger EXCEPT !.pc = "clear"]
    /\ UNCHANGED <<users, users_cache, user_identifiers_cache, users_held, user_data>>

\* merge_users: users_cache.remove(&user.id)
MergeRemoveUser ==
    /\ merger.pc = "remove_user"
    /\ users_cache' = [id \in DOMAIN users_cache \ { merger.user.id } |-> users_cache[id]]
    /\ merger' = [merger EXCEPT !.pc = "clear"]
    /\ UNCHANGED <<users, user_identifiers_cache, users_held, user_data>>

\* merge_users: user_identifiers_cache.clear(), and the return of the user
MergeClear ==
    /\ merger.pc = "clear"
    /\ user_identifiers_cache' = <<>>
    /\ merger' = [merger EXCEPT !.pc = "done"]
    /\ UNCHANGED <<users, users_cache, users_held, user_data>>

\* One round of the loop start_cron spawns, after its sleep.
Sweep ==
    /\ web_sessions_cache' = <<>>
    /\ users_cache' = <<>>
    /\ user_identifiers_cache' = <<>>
    /\ UNCHANGED <<users, users_held, channels_cache, callers>>

\* The frame of the lookups' steps, and of the merging thread's.
UserStep(c) ==
    /\ \/ \E arg \in { I1, I2, I3 } : Call(c, "get_user", arg)
       \/ \E arg \in { I2, I3 } : Call(c, "get_or_create_user", arg)
       \/ \E arg \in { 1, 2 } : Call(c, "get_user_by_id", arg)
       \/ IdentGet(c)
       \/ \E up \in BOOLEAN : IdentQuery(c, up)
       \/ IdentInsert(c)
       \/ IdGet(c)
       \/ \E up \in BOOLEAN : IdQuery(c, up)
       \/ IdInsert(c)
       \/ \E unique \in BOOLEAN : Create(c, unique)
    /\ merger' = Disturbed
    /\ UNCHANGED <<channels, commands, redis_channels, user_data, web_sessions, now,
                   last, tasks, replies, handlerVars, loader>>

CacheStep(c) ==
    /\ \/ \E arg \in { 2, 3 } : Call(c, "get_user_by_id", arg)
       \/ IdGet(c)
       \/ \E up \in BOOLEAN : IdQuery(c, up)
       \/ IdInsert(c)
       \/ \E arg \in { "s1", "s2" } : Call(c, "get_web_session", arg)
       \/ Call(c, "remove_web_session", "s1")
       \/ \E arg \in { TwitchChannelName(l) : l \in ChannelLogins } :
             Call(c, "get_channel", arg)
       \/ SessionGet(c)
       \/ \E up \in BOOLEAN : SessionQuery(c, up)
       \/ SessionInsert(c)
       \/ ChannelGet(c)
       \/ \E up \in BOOLEAN : ChannelQuery(c, up)
       \/ ChannelInsert(c)
    /\ merger' = Disturbed
    /\ UNCHANGED <<channels, commands, redis_channels, user_data, web_sessions, now,
                   last, tasks, replies, handlerVars, loader>>

MergerStep ==
    /\ \/ MergeCall(UserA, UserB)
       \/ MergeRemoveOther
       \/ MergeReplaceData
       \/ MergeDelete
       \/ MergeUpdate
       \/ MergeRemoveUser
       \/ MergeClear
    /\ UNCHANGED <<channels, commands, redis_channels, web_sessions, web_sessions_cache,
                   channels_cache, callers, now, last, tasks, replies, handlerVars, loader>>

SweepStep ==
    /\ Sweep
    /\ merger' = Disturbed
    /\ UNCHANGED <<channels, commands, redis_channels, user_data, web_sessions, now,
                   last, tasks, replies, handlerVars, loader>>

\* The caches after lookups of every user, session and channel of the store.
WarmUsers == (1 :> UserA) @@ (2 :> UserB)
WarmIdentifiers == (I1 :> 1) @@ (I2 :> 2)
WarmSessions == "s1" :> WebSession("s1", 1)
WarmChannels ==
    TwitchChannelName("a") :> [id |-> 1, platform |-> "twitch", channel |-> "a"]

\* The store holds channel "a", the users A and B and a session of A; B has
\* data under a key, and A may have data under the same key.  The caches are
\* empty, or hold what earlier lookups left in them.
InitLookups ==
    /\ channels = { [id |-> 1, platform |-> "twitch", channel |-> "a"] }
    /\ commands = {}
    /\ redis_channels = [p \in { "twitch" } |-> { "a" }]
    /\ users = { UserA, UserB }
    /\ \E warm \in BOOLEAN :
          /\ users_cache = IF warm THEN WarmUsers ELSE <<>>
          /\ user_identifiers_cache = IF warm THEN WarmIdentifiers ELSE <<>>
          /\ web_sessions_cache = IF warm THEN WarmSessions ELSE <<>>
          /\ channels_cache = IF warm THEN WarmChannels ELSE <<>>
    /\ user_data \in { { UserData(2, "k", "v") },
                       { UserData(2, "k", "v"), UserData(1, "k", "w") } }
    /\ web_sessions = { WebSession("s1", 1) }
    /\ users_held = users
    /\ callers = [c \in Callers |-> IdleCaller]
    /\ merger = IdleMerger
    /\ loader = [pc |-> "idle"]
    /\ now = 0
    /\ last = [seen |-> FALSE]
    /\ tasks = [t \in 1..NumTasks |-> [pc |-> "idle"]]
    /\ replies = [t \in 1..NumTasks |-> <<>>]
    /\ filters = <<>>
    /\ interp = [pc |-> "none"]
    /\ send = [seen |-> FALSE]
    /\ bus = <<>>

NextUsers ==
    \/ \E c \in Callers : UserStep(c)
    \/ MergerStep
    \/ SweepStep

SpecUsers == InitLookups /\ [][NextUsers]_vars

NextCaches ==
    \/ \E c \in Callers : CacheStep(c)
    \/ \E c \in Callers, up \in BOOLEAN : SessionDelete(c, up)
    \/ \E c \in Callers : SessionEvict(c)
    \/ MergerStep
    \/ SweepStep

SpecCaches == InitLookups /\ [][NextCaches]_vars


(***************************************************************************)
(* The state machine.                                                      *)
(***************************************************************************)
NoMessage == [seen |-> FALSE]
IdleTask == [pc |-> "idle"]

\* The store with no rows, and the store in which channel "a" holds the command
\* "hi" as add_command_to_channel writes it.
EmptyDb ==
    [channels |-> {}, commands |-> {}, redis_channels |-> [p \in {"twitch"} |-> {}],
     users |-> {}, users_cache |-> <<>>, user_identifiers_cache |-> <<>>]

DbWithCommand ==
    add_command_to_channel(EmptyDb, TRUE, TwitchChannelName("a"), <<"hi">>, <<"yo">>).db

StartsWith(db) ==
    /\ channels = db.channels
    /\ commands = db.commands
    /\ redis_channels = db.redis_channels
    /\ users = db.users
    /\ users_cache = db.users_cache
    /\ user_identifiers_cache = db.user_identifiers_cache
    /\ now = 0
    /\ last = NoMessage
    /\ tasks = [t \in Tasks |-> IdleTask]
    /\ NoLookups

\* No reply given yet, no interpreter call and no send_to_channel call made,
\* no filter configured.
NoReplies == [t \in Tasks |-> <<>>]
NoCall == [pc |-> "none"]
NoFilters == <<>>
NoSend == [seen |-> FALSE]

HandlerIdle ==
    /\ interp = NoCall
    /\ send = NoSend
    /\ bus = <<>>

Init == StartsWith(EmptyDb) /\ replies = NoReplies /\ filters = NoFilters /\ HandlerIdle

\* The bot starts on a store that persists between runs.
InitTasks ==
    /\ \E db \in { EmptyDb, DbWithCommand } : StartsWith(db)
    /\ replies = NoReplies
    /\ filters \in { NoFilters, FiltersOnReply }
    /\ HandlerIdle

SetStore(db) ==
    /\ channels' = db.channels
    /\ commands' = db.commands
    /\ redis_channels' = db.redis_channels
    /\ users' = db.users
    /\ users_cache' = db.users_cache
    /\ user_identifiers_cache' = db.user_identifiers_cache

\* The ExecutionContext Twitch::run builds for a Privmsg.
Context(channel_login, is_mod) ==
    [channel |-> TwitchChannelName(channel_login),
     permissions |-> IF is_mod THEN "ChannelMod" ELSE "Default"]

\* One Privmsg handled from receipt to reply, with no other task running.
Receive(msg) ==
    \E h \in { handle_command_message(Db, msg.up, now, msg.text, TwitchID(msg.sender),
                                       Context(msg.channel_login, msg.is_mod)) } :
        /\ SetStore(h.db)
        /\ last' = [seen |-> TRUE, text |-> msg.text,
                    context |-> Context(msg.channel_login, msg.is_mod),
                    user |-> TwitchID(msg.sender), up |-> msg.up,
                    before |-> Db, after |-> h.db,
                    outcome |-> h.ret, calls |-> h.calls, run |-> h.run,
                    sent |-> IF h.ret.panic THEN None ELSE h.ret.reply]
        /\ UNCHANGED <<now, tasks, replies, handlerVars, lookupVars>>

\* Database::update_command called with a NewCommand row.
UpdateCommand(command) ==
    /\ command.channel_id \in { c.id : c \in channels }
    /\ SetStore(update_command(Db, TRUE, command).db)
    /\ UNCHANGED <<now, last, tasks, replies, handlerVars, lookupVars>>

Tick ==
    /\ now < MaxTime
    /\ now' = now + 1
    /\ UNCHANGED <<storeVars, last, tasks, replies, handlerVars, lookupVars>>

\* Twitch::run receives a Privmsg: it spawns the message's task when the
\* command prefix strips from the text, and does nothing with it otherwise.
Spawn(t, text, channel_login, is_mod, sender) ==
    /\ tasks[t].pc = "idle"
    /\ \E message_text \in { strip_prefix(text, command_prefix) } :
          tasks' = [tasks EXCEPT ![t] =
                       IF message_text.some
                       THEN [pc |-> "spawned", text |-> message_text.val,
                             context |-> Context(channel_login, is_mod),
                             user |-> TwitchID(sender)]
                       ELSE [pc |-> "ignored", received |-> text]]
    /\ UNCHANGED <<storeVars, now, last, replies, handlerVars, lookupVars>>

\* The task's handle_command_message call.
Handle(t) ==
    /\ tasks[t].pc = "spawned"
    /\ \E m \in { tasks[t] },
          h \in { handle_command_message(Db, TRUE, now, tasks[t].text, tasks[t].user,
                                         tasks[t].context) } :
           /\ SetStore(h.db)
           /\ tasks' = [tasks EXCEPT ![t] =
                           [pc |-> IF h.ret.panic THEN "panicked" ELSE "handled",
                            text |-> m.text, context |-> m.context, user |-> m.user,
                            outcome |-> h.ret, handled_at |-> now,
                            racing |-> { u \in Tasks \ {t} : tasks[u].pc = "spawned" }]]
    /\ UNCHANGED <<now, last, replies, handlerVars, lookupVars>>

\* A connector that sends the response twice.
Reply_twice(t) ==
    /\ tasks[t].pc = "handled"
    /\ tasks' = [tasks EXCEPT ![t] = [@ EXCEPT !.pc = "done"]]
    /\ replies' = [replies EXCEPT ![t] =
                      IF tasks[t].outcome.reply.some
                      THEN Append(Append(@, tasks[t].outcome.reply.val),
                                  tasks[t].outcome.reply.val)
                      ELSE @]
    /\ UNCHANGED <<storeVars, now, last, handlerVars, lookupVars>>

\* The task's reply_to_privmsg, when there is a response.
Reply(t) ==
    /\ tasks[t].pc = "handled"
    /\ tasks' = [tasks EXCEPT ![t] = [@ EXCEPT !.pc = "done"]]
    /\ replies' = [replies EXCEPT ![t] =
                      IF tasks[t].outcome.reply.some
                      THEN Append(@, tasks[t].outcome.reply.val)
                      ELSE @]
    /\ UNCHANGED <<storeVars, now, last, handlerVars, lookupVars>>

UpdateCommands ==
    { NewCommand(<<"hi">>, <<"yo">>, Some("channel_mod"), id, DefaultCooldown) :
        id \in 1..Cardinality(ChannelLogins) }

Next ==
    \/ \E msg \in Messages : Receive(msg)
    \/ \E command \in UpdateCommands : UpdateCommand(command)
    \/ Tick

Spec == Init /\ [][Next]_vars

NextTasks ==
    \/ \E t \in Tasks, text \in PrivmsgTexts, s \in SenderIds :
          Spawn(t, text, "a", TRUE, s)
    \/ \E t \in Tasks : Handle(t)
    \/ \E t \in Tasks : Reply(t)
    \/ Tick

SpecTasks == InitTasks /\ [][NextTasks]_vars

(***************************************************************************)
(* The action interpreter, called on its own.                              *)
(***************************************************************************)
ActionAtoms == { "a", " ", "$", ":", "DO_SOMETHING" }

ExampleAction ==
    <<"Hello", " ", "$", "DO_SOMETHING", ":", "a", ":", "b", " ", "world">>

Actions == Strings(ActionAtoms, MaxActionLen) \cup { ExampleAction }

InitInterp ==
    /\ StartsWith(EmptyDb)
    /\ replies = NoReplies
    /\ filters = NoFilters
    /\ send = NoSend
    /\ bus = <<>>
    /\ \E action \in Actions : interp = [pc |-> "called", action |-> action]

\* execute_command_action runs on the action it was given.
Interpret ==
    /\ interp.pc = "called"
    /\ interp' = [pc |-> "returned", action |-> interp.action,
                  result |-> execute_command_action(interp.action,
                                                    Context("a", FALSE))]
    /\ UNCHANGED <<storeVars, now, last, tasks, replies, filters, send, bus, lookupVars>>

NextInterp == Interpret

SpecInterp == InitInterp /\ [][NextInterp]_vars

(***************************************************************************)
(* Properties.                                                             *)
(***************************************************************************)
Range(f) == { f[i] : i \in DOMAIN f }

\* The trigger names the specification lists as the dispatcher's built-in set.
BuiltinTriggers ==
    { <<"ping">>, <<"whoami">>, <<"id">>, <<"command">>, <<"cmd">>, <<"commands">>,
      <<"addcmd">>, <<"cmdadd">>, <<"delcmd">>, <<"cmddel">> }

Tokens(text) == split_whitespace(text)
HasToken(text) == Len(Tokens(text)) > 0
Token(text) == Tokens(text)[1]

\* The commands a store holds for a context's channel under a name.
StoredIn(db, context, name) ==
    { c \in db.commands :
        /\ c.name = name
        /\ \E ch \in db.channels :
              /\ ch.id = c.channel_id
              /\ ch.platform = context.channel.platform
              /\ Some(ch.channel) = context.channel.channel }

StoredFor(context, name) == StoredIn(Db, context, name)

NoPermissionsReply ==
    Some(<<"Error: ", "you don't have the permissions to use this command">>)

\* C1: whatever the context and the caller's permissions, the empty text gets
\* exactly the reply U+2757, and neither run_command nor any store function is
\* called for it.
C1_EmptyTextReply ==
    (last.seen /\ last.text = <<>>) =>
        /\ last.outcome = Returned(Some(<<"U+2757">>))
        /\ last.sent = Some(<<"U+2757">>)
        /\ last.calls = <<>>
        /\ last.after = last.before

C1_Witness ==
    /\ last.seen
    /\ last.text = <<>>
    /\ last.context.permissions = "ChannelMod"
    /\ last.before.commands # {}
    /\ last.after = last.before
    /\ last.sent = Some(<<"U+2757">>)

\* C2: for every input text, also one made of whitespace only, the dispatch
\* completes with a reply or with none: it never panics.
C2_NeverPanics == last.seen => ~last.outcome.panic

\* C3: whenever run_command fails with a CommandError, the dispatcher returns one
\* reply, "Error: " followed by the error's Display text, and the task does not
\* fail.
C3_ErrorsBecomeReplies ==
    (last.seen /\ last.run.some /\ ~last.run.val.ok) =>
        /\ last.outcome =
              Returned(Some(<<"Error: ">> \o CommandErrorDisplay(last.run.val.err)))
        /\ last.sent = last.outcome.reply

C3_Witness ==
    /\ last.seen
    /\ last.run = Some(Err(DatabaseError(InvalidValue)))
    /\ last.sent = Some(<<"Error: ", "database error: ", "Invalid value">>)

\* The name a text asks to create a stored command for, as a set.
AddedNames(text) ==
    LET tk == Tokens(text)
    IN  IF Len(tk) >= 3 /\ tk[1] \in { <<"addcmd">>, <<"cmdadd">> }
        THEN { tk[2] }
        ELSE IF /\ Len(tk) >= 4
                /\ tk[1] \in { <<"cmd">>, <<"command">>, <<"commands">> }
                /\ tk[2] \in { <<"add">>, <<"create">> }
        THEN { tk[3] }
        ELSE {}

\* C4: creating a stored command whose name is one of the dispatcher's built-in
\* triggers fails with InvalidValue in every channel, and no such command is
\* stored.
C4_BuiltinNamesRejected ==
    (/\ last.seen
     /\ last.up
     /\ last.context.permissions = "ChannelMod"
     /\ AddedNames(last.text) \cap BuiltinTriggers # {}) =>
        /\ last.run = Some(Err(DatabaseError(InvalidValue)))
        /\ last.after.commands = last.before.commands

\* C5: a token that is a built-in trigger is handled by the built-in handler: the
\* store is never asked for a command of that name and no stored action is
\* executed, whatever the store holds.
C5_BuiltinsWin ==
    (last.seen /\ HasToken(last.text) /\ Token(last.text) \in BuiltinTriggers) =>
        /\ ~last.outcome.panic
        /\ "get_command" \notin Range(last.calls)
        /\ "execute_command_action" \notin Range(last.calls)
        /\ Len(last.calls) >= 2
        /\ last.calls[2] \in { "ping", "get_user", "cmd" }

C5_Witness ==
    /\ last.seen
    /\ last.text = W(<<"whoami">>)
    /\ StoredIn(last.before, last.context, <<"whoami">>) # {}
    /\ last.sent = Some(<<"Ok(None)", ", permissions: ", "Default">>)

\* The last message's first token is no built-in trigger and named no command
\* stored for the context's channel when the message arrived.
LastIsMiss ==
    /\ last.seen
    /\ HasToken(last.text)
    /\ Token(last.text) \notin BuiltinTriggers
    /\ StoredIn(last.before, last.context, Token(last.text)) = {}

\* C6, as stated: a first token that is neither a built-in trigger nor the name
\* of a command stored for the channel gets no reply, and neither the store nor
\* a cache changes.
C6_MissIsSilentAlways ==
    LastIsMiss =>
        /\ last.outcome = Returned(None)
        /\ last.sent = None
        /\ last.after = last.before

\* C6, amended: the same, when the store answers the lookup.
C6_MissIsSilent ==
    (LastIsMiss /\ last.up) =>
        /\ last.outcome = Returned(None)
        /\ last.sent = None
        /\ last.after = last.before

C6_Witness ==
    /\ last.seen
    /\ last.text = W(<<"hi">>)
    /\ last.up
    /\ LastIsMiss
    /\ last.before.commands # {}
    /\ "get_command" \in Range(last.calls)
    /\ last.sent = None

\* A text that invokes command, cmd or commands with an add or remove
\* subcommand, or one of the legacy aliases.
IsAddOrRemove(text) ==
    LET tk == Tokens(text)
    IN  \/ /\ Len(tk) >= 1
           /\ tk[1] \in { <<"addcmd">>, <<"cmdadd">>, <<"delcmd">>, <<"cmddel">> }
        \/ /\ Len(tk) >= 2
           /\ tk[1] \in { <<"cmd">>, <<"command">>, <<"commands">> }
           /\ tk[2] \in { <<"add">>, <<"create">>, <<"del">>, <<"delete">>, <<"remove">> }

\* C7: a caller whose permissions are Default who invokes command, cmd, commands
\* or a legacy alias with an add or remove subcommand gets the NoPermissions
\* error, and the stored commands are the same before and after.
C7_DefaultCannotEdit ==
    (/\ last.seen
     /\ last.context.permissions = "Default"
     /\ IsAddOrRemove(last.text)) =>
        /\ last.run = Some(Err(NoPermissions))
        /\ last.sent = NoPermissionsReply
        /\ last.after.commands = last.before.commands

C7_Witness ==
    /\ last.seen
    /\ last.context.permissions = "Default"
    /\ last.text = W(<<"cmd", "remove", "hi">>)
    /\ StoredIn(last.before, last.context, <<"hi">>) # {}
    /\ last.sent = NoPermissionsReply

\* C8: a stored command whose permission override is ChannelMod, invoked by a
\* caller whose permissions are Default, is rejected with NoPermissions and its
\* action is not interpreted.
C8_OverrideIsEnforced ==
    (/\ last.seen
     /\ last.up
     /\ last.context.permissions = "Default"
     /\ HasToken(last.text)
     /\ Token(last.text) \notin BuiltinTriggers
     /\ \E c \in StoredIn(last.before, last.context, Token(last.text)) :
           c.permissions = Some("channel_mod")) =>
        /\ last.run = Some(Err(NoPermissions))
        /\ "execute_command_action" \notin Range(last.calls)

\* Two tasks given the same cooldown-bound stored command in the same channel.
Handled2(t) == tasks[t].pc \in { "handled", "done" }
Replied(t) == Handled2(t) /\ tasks[t].outcome.reply.some
SameBoundCommand(t, u) ==
    /\ t # u
    /\ Handled2(t)
    /\ Handled2(u)
    /\ tasks[t].context.channel = tasks[u].context.channel
    /\ HasToken(tasks[t].text)
    /\ Tokens(tasks[t].text) = Tokens(tasks[u].text)
    /\ \E c \in StoredFor(tasks[t].context, Token(tasks[t].text)) : c.cooldown > 0

Cooldown(t) ==
    (CHOOSE c \in StoredFor(tasks[t].context, Token(tasks[t].text)) : TRUE).cooldown

\* C9: once an invocation of a stored command with cooldown c > 0 has produced a
\* reply, an invocation of it in the same channel less than c seconds later
\* produces no reply.
C9_CooldownSilences ==
    \A t, u \in Tasks :
        (/\ SameBoundCommand(t, u)
         /\ Replied(t)
         /\ tasks[t].handled_at < tasks[u].handled_at
         /\ tasks[u].handled_at - tasks[t].handled_at < Cooldown(t)) =>
            ~Replied(u)

\* Two tasks spawned before either called handle_command_message.
Concurrent(t, u) == u \in tasks[t].racing \/ t \in tasks[u].racing

\* C10: of two tasks that invoke the same cooldown-bound command in the same
\* channel concurrently, at most one passes the cooldown check and replies.
C10_OneOfTwoReplies ==
    \A t, u \in Tasks :
        (SameBoundCommand(t, u) /\ Concurrent(t, u)) => ~(Replied(t) /\ Replied(u))

InitSend ==
    /\ StartsWith(EmptyDb)
    /\ replies = NoReplies
    /\ interp = NoCall
    /\ send = NoSend
    /\ bus = <<>>
    /\ filters \in FilterConfigs

\* OUTGOING_MESSAGES_CHANNEL_PREFIX: not set, or set to a prefix.
PrefixVars == { None, Some(<<"out.">>) }

\* One call of send_to_channel.
SendToChannel(channel_login, msg, bus_up, prefix_var) ==
    /\ ~send.seen
    /\ \E r \in { send_to_channel(filters, TwitchChannelName(channel_login), msg,
                                  bus_up, prefix_var) } :
          /\ send' = [seen |-> TRUE, channel |-> TwitchChannelName(channel_login),
                      msg |-> msg, bus_up |-> bus_up, prefix_var |-> prefix_var,
                      contents |-> r.contents, ret |-> r.ret,
                      attempts |-> r.attempts]
          /\ bus' = bus \o r.published
    /\ UNCHANGED <<storeVars, now, last, tasks, replies, interp, filters, lookupVars>>

NextSend ==
    \E channel_login \in ChannelLogins, msg \in SendTexts, bus_up \in BOOLEAN,
       prefix_var \in PrefixVars :
        SendToChannel(channel_login, msg, bus_up, prefix_var)

SpecSend == InitSend /\ [][NextSend]_vars

(***************************************************************************)
(* The interpreter's properties, under SpecInterp.                         *)
(***************************************************************************)
\* The first position of s at or after from that holds c, or Len(s) + 1.
FirstIndex(s, from, c) ==
    IF \E i \in from..Len(s) : s[i] = c
    THEN CHOOSE i \in from..Len(s) : s[i] = c /\ \A j \in from..(i - 1) : s[j] # c
    ELSE Len(s) + 1

\* The first inquiry of an action that holds a '$': the text before it, the
\* inquiry's text, and the text after the space that ends it.
HasInquiry(action) == FirstIndex(action, 1, "$") <= Len(action)
BeforeInquiry(action) == SubSeq(action, 1, FirstIndex(action, 1, "$") - 1)
FirstInquiry(action) ==
    SubSeq(action, FirstIndex(action, 1, "$") + 1,
           FirstIndex(action, FirstIndex(action, 1, "$") + 1, " ") - 1)
AfterInquiry(action) ==
    SubSeq(action, FirstIndex(action, FirstIndex(action, 1, "$") + 1, " ") + 1,
           Len(action))
InquiryName(inquiry) == SubSeq(inquiry, 1, FirstIndex(inquiry, 1, ":") - 1)

\* What an inquiry stands for: the text its name's function gives, or nothing.
Substitution(inquiry) ==
    unwrap_or_default(make_inquiry(inquiry, Context("a", FALSE)).val)

\* The output the grammar gives an action: text outside inquiries as it is, and
\* for every inquiry its substitution and one space.
RECURSIVE Expanded(_)
Expanded(action) ==
    IF ~HasInquiry(action) THEN action
    ELSE BeforeInquiry(action) \o Substitution(FirstInquiry(action)) \o <<" ">>
            \o Expanded(AfterInquiry(action))

Returned2(call) == call.pc = "returned"
Output(call) == unwrap_or_default(call.result.val)

\* C11: execute_command_action copies every character other than '$' as it is,
\* and for each '$' consumes up to and including the next space (or the end of
\* the string) and puts the inquiry's substitution and exactly one space in its
\* place, also when the inquiry ended at the end of the string; nothing is
\* stripped.
C11_ScanLeftToRight ==
    Returned2(interp) =>
        /\ interp.result.ok
        /\ Output(interp) = Expanded(interp.action)

C11_Witness ==
    /\ Returned2(interp)
    /\ interp.action = ExampleAction
    /\ interp.result =
          Ok(Some(<<"Hello", " ", "did something with ", "[", "\"", "a", "\"", ",", " ",
                    "\"", "b", "\"", "]", " ", "world">>))

\* C12: an inquiry whose name is not a recognized one puts the empty string and
\* the one separator space in the output and gives no error, whatever its
\* arguments.
C12_UnknownNameIsEmpty ==
    (/\ Returned2(interp)
     /\ HasInquiry(interp.action)
     /\ InquiryName(FirstInquiry(interp.action)) # <<"DO_SOMETHING">>) =>
        /\ interp.result.ok
        /\ Output(interp) =
              BeforeInquiry(interp.action) \o <<" ">>
                 \o Expanded(AfterInquiry(interp.action))

C12_Witness ==
    /\ Returned2(interp)
    /\ interp.action = <<"a", "$", "a", ":">>
    /\ interp.result = Ok(Some(<<"a", " ">>))

\* C13: an action that holds an inquiry with an empty name (a '$' followed at
\* once by a space, by ':' or by the end of the string) makes the interpreter
\* fail with InquiryError::MissingArgument.
C13_EmptyNameFails ==
    (/\ Returned2(interp)
     /\ HasInquiry(interp.action)
     /\ InquiryName(FirstInquiry(interp.action)) = <<>>) =>
        interp.result = Err(InquiryError(InquiryMissingArgument(<<"inquiry">>)))

\* The action's last inquiry runs to the end of the string.
EndsInInquiry(action) ==
    \E i \in 1..Len(action) :
        action[i] = "$" /\ \A j \in (i + 1)..Len(action) : action[j] # " "

\* C14: execute_command_action returns None exactly when the expanded output is
\* the empty string, and otherwise the expanded output as it is, the space put
\* after the last inquiry included.
C14_NoneIffEmpty ==
    Returned2(interp) =>
        /\ interp.result.ok
        /\ interp.result.val = None <=> Expanded(interp.action) = <<>>
        /\ interp.result.val # None =>
              /\ interp.result.val = Some(Expanded(interp.action))
              /\ EndsInInquiry(interp.action) =>
                    interp.result.val.val[Len(interp.result.val.val)] = " "

C14_Witness ==
    /\ Returned2(interp)
    /\ interp.action = <<"a", "$", "DO_SOMETHING">>
    /\ interp.result = Ok(Some(<<"a", "did something with ", "[", "]", " ">>))

(***************************************************************************)
(* The message filter's properties, under SpecSend.                        *)
(***************************************************************************)
\* The filters of the channel the last call sent to, and the first of them.
SendFilters ==
    IF send.channel \in DOMAIN filters THEN filters[send.channel] ELSE <<>>
FirstFilter == SendFilters[1]
FirstCompiles == Regex_new(FirstFilter.regex).ok
FirstMatches == \E i \in 1..Len(send.msg) : <<send.msg[i]>> = FirstFilter.regex

\* C15: when a blocking filter's regex matches the current message the message
\* becomes empty and no later filter of the channel is applied; a blocking
\* filter that does not match leaves the message as it is and the later
\* filters are applied to it.
C15_BlockingFilter ==
    (/\ send.seen
     /\ SendFilters # <<>>
     /\ FirstFilter.block_message
     /\ FirstCompiles) =>
        /\ FirstMatches => send.contents = <<>>
        /\ ~FirstMatches =>
              send.contents = apply_filters(Tail(SendFilters), 1, send.msg)

C15_Witness ==
    /\ send.seen
    /\ send.msg = <<"bad", " ">>
    /\ SendFilters = << Filter(<<"bad">>, TRUE, None), Filter(<<"(">>, TRUE, None) >>
    /\ send.contents = <<>>

\* C16: when a blocking filter of the destination channel matches the text
\* given to send_to_channel, the call publishes no message, not even one with
\* empty contents.
C16_BlockedIsNotPublished ==
    (/\ send.seen
     /\ SendFilters # <<>>
     /\ FirstFilter.block_message
     /\ FirstCompiles
     /\ FirstMatches) =>
        bus = <<>>

\* The message with every occurrence of the word replaced by the text.
RECURSIVE Substituted(_, _, _)
Substituted(message, word, text) ==
    IF message = <<>> THEN <<>>
    ELSE (IF Head(message) = word THEN text ELSE <<Head(message)>>)
            \o Substituted(Tail(message), word, text)

\* C17: a non-blocking filter replaces every match of its regex in the current
\* message by the filter's replacement text, or by "[Blocked]" when it has
\* none, and leaves the other text as it is.
C17_ReplacesEveryMatch ==
    (/\ send.seen
     /\ SendFilters # <<>>
     /\ ~FirstFilter.block_message
     /\ FirstCompiles) =>
        send.contents =
            apply_filters(Tail(SendFilters), 1,
                Substituted(send.msg, FirstFilter.regex[1],
                            IF FirstFilter.replacement.some
                            THEN FirstFilter.replacement.val
                            ELSE <<"[Blocked]">>))

\* C18: a filter whose regex does not compile does not stop the pipeline: the
\* message becomes a diagnostic text that names the failure, and every later
\* filter of the channel is applied, in list order, to that text.
C18_CompileFailureContinues ==
    (/\ send.seen
     /\ SendFilters # <<>>
     /\ ~FirstCompiles) =>
        send.contents =
            apply_filters(Tail(SendFilters), 1,
                <<"failed", " ", "to", " ", "compile", " ", "message", " ", "filter",
                  " ", "regex", ":", " ", "regex parse error: unclosed group">>)

C18_Witness ==
    /\ send.seen
    /\ send.msg = <<"bad">>
    /\ SendFilters =
          << Filter(<<"(">>, FALSE, None), Filter(<<"compile">>, FALSE, Some(<<"ok">>)) >>
    /\ send.contents =
          <<"failed", " ", "to", " ", "ok", " ", "message", " ", "filter", " ",
            "regex", ":", " ", "regex parse error: unclosed group">>

(***************************************************************************)
(* Delivery of the dispatch tasks' replies, under SpecTasks.               *)
(***************************************************************************)
\* The text the channel's filters make of the response of task t.
FilteredResponse(t) ==
    filter_message(filters, tasks[t].outcome.reply.val, tasks[t].context.channel)

\* C19: every text delivered as the reply to a dispatched command is what the
\* destination channel's message filters make of the produced response; no
\* produced text is delivered unfiltered.
C19_RepliesAreFiltered ==
    \A t \in Tasks :
        (tasks[t].pc = "done" /\ tasks[t].outcome.reply.some) =>
            \A i \in 1..Len(replies[t]) : replies[t][i] = FilteredResponse(t)

\* The messages Twitch::run dispatched, and those it left alone.
Dispatched(t) == tasks[t].pc \in { "spawned", "handled", "panicked", "done" }
Ignored(t) == tasks[t].pc = "ignored"

\* C20: an inbound message gets at most one reply, and only after its one
\* dispatch has produced a response; a message that does not start with the
\* command prefix is not dispatched and gets no reply.
C20_AtMostOneReply ==
    \A t \in Tasks :
        /\ Len(replies[t]) <= 1
        /\ replies[t] # <<>> =>
              /\ tasks[t].pc = "done"
              /\ tasks[t].outcome.reply = Some(replies[t][1])
        /\ Dispatched(t) => strip_prefix(command_prefix \o tasks[t].text,
                                         command_prefix) = Some(tasks[t].text)
        /\ Ignored(t) =>
              /\ ~strip_prefix(tasks[t].received, command_prefix).some
              /\ "outcome" \notin DOMAIN tasks[t]
              /\ replies[t] = <<>>

\* One message was replied to once, and a chat line that names a stored
\* command without the prefix was left alone.
C20_Witness ==
    \E t, u \in Tasks :
        /\ tasks[t].pc = "done"
        /\ replies[t] = <<<<"yo">>>>
        /\ Ignored(u)
        /\ tasks[u].received = W(<<"hi">>)
        /\ StoredFor(tasks[t].context, <<"hi">>) # {}

(***************************************************************************)
(* What send_to_channel publishes, under SpecSend.                         *)
(***************************************************************************)
\* The topic of the configuration and the channel of the call.
SendTopic ==
    (IF send.prefix_var.some THEN send.prefix_var.val ELSE <<"messages.outgoing.">>)
        \o <<send.channel.platform>>

\* C21: a successful send_to_channel has published exactly one payload, on the
\* topic made of the configured prefix (by default "messages.outgoing.") and the
\* channel's platform name, whose channel_id is the channel's string and whose
\* contents are the filtered text; a failed call has published nothing.
C21_PublishesOnePayload ==
    send.seen =>
        IF send.ret.ok
        THEN /\ Len(bus) = 1
             /\ bus[1].topic = SendTopic
             /\ bus[1].message.channel_id = send.channel.channel.val
             /\ bus[1].message.contents =
                    filter_message(filters, send.msg, send.channel)
        ELSE bus = <<>>

\* A text rewritten by the channel's filter went out on the configured topic.
C21_Witness ==
    /\ send.seen
    /\ send.ret.ok
    /\ send.msg = <<"bad", " ">>
    /\ send.prefix_var = Some(<<"out.">>)
    /\ bus = << [topic |-> <<"out.", "twitch">>,
                 message |-> [channel_id |-> "a", contents |-> <<"ok", " ">>]] >>

(***************************************************************************)
(* merge_users and the user lookups, under SpecUsers.                      *)
(***************************************************************************)
\* merge_users has returned, and no other thread has moved since it was called.
MergedAlone == merger.pc = "done" /\ merger.quiet

\* C22: when merge_users returns, no other thread having moved meanwhile, the
\* users-by-id cache holds neither the kept nor the dropped user's id, the
\* identifier cache is empty, and the session cache is as it was at the call.
C22_MergeEvicts ==
    MergedAlone =>
        /\ merger.user.id \notin DOMAIN users_cache
        /\ merger.other.id \notin DOMAIN users_cache
        /\ user_identifiers_cache = <<>>
        /\ web_sessions_cache = merger.sessions

\* The caches held both users, their identifiers and a session when
\* merge_users was called.
C22_Witness ==
    /\ MergedAlone
    /\ merger.sessions = WarmSessions
    /\ users_cache = <<>>
    /\ \A c \in Callers : callers[c].pc = "idle"

\* A get_user of the dropped user's identifier, called after merge_users
\* returned, has returned a value.
LateLookup(c) ==
    /\ callers[c].pc = "returned"
    /\ callers[c].op = "get_user"
    /\ callers[c].arg = I2
    /\ callers[c].late
    /\ callers[c].ret.ok

\* C23: once merge_users(A, B) has returned, whatever lookups ran beside it, a
\* get_user of B's identifier returns the user the store holds for it, and the
\* identifier cache does not map the identifier to the id of the deleted user.
C23_CacheFollowsStore ==
    merger.pc = "done" =>
        /\ \A c \in Callers :
              LateLookup(c) =>
                  /\ callers[c].ret.val.some
                  /\ callers[c].ret.val.val \in Owners(I2)
        /\ I2 \in DOMAIN user_identifiers_cache =>
              user_identifiers_cache[I2] \in { u.id : u \in Owners(I2) }

\* The user that owns the identifiers of A and of B.
MergedUser == merge(UserA, UserB)

C25_OneOwnerPerIdentifier ==
    merger.pc = "idle" =>
        /\ \A i \in { I1, I2, I3 } : Cardinality(Owners(i)) <= 1
        /\ \A c \in Callers : callers[c].pc # "panicked"
        /\ \A c, d \in Callers :
              (/\ callers[c].pc = "returned" /\ callers[d].pc = "returned"
               /\ callers[c].op = "get_or_create_user"
               /\ callers[d].op = "get_or_create_user"
               /\ callers[c].arg = callers[d].arg
               /\ callers[c].ret.ok /\ callers[d].ret.ok) =>
                  callers[c].ret.val.id = callers[d].ret.val.id

(***************************************************************************)
(* Channel creation, under Spec.                                           *)
(***************************************************************************)
\* The channels the last dispatch created.
CreatedChannels == last.after.channels \ last.before.channels

\* C26: when a dispatch has made get_or_create_channel create a channel, the
\* channel's name is in the set of known names of its platform and a
\* notification has been published on the platform's update topic; when no
\* channel was created, the sets are as before and nothing was published.
C26_CreationIsAnnounced ==
    last.seen =>
        IF CreatedChannels # {}
        THEN \A c \in CreatedChannels :
                /\ c.channel \in last.after.redis_channels[c.platform]
                /\ \E i \in 1..Len(bus) : bus[i].topic = <<"channels.update.", c.platform>>
        ELSE /\ last.after.redis_channels = last.before.redis_channels
             /\ bus = <<>>

(***************************************************************************)
(* The sweep and the read-through caches, under SpecCaches.                *)
(***************************************************************************)
\* C27: every round of the background sweep leaves every cached collection
\* empty: the users-by-id, identifier, session and channel caches.
C27_SweepEmptiesEveryCache ==
    [][SweepStep => /\ web_sessions_cache' = <<>>
                    /\ users_cache' = <<>>
                    /\ user_identifiers_cache' = <<>>
                    /\ channels_cache' = <<>>]_vars

\* A step of thread c in a lookup op whose steps are get, query and insert:
\* a hit returns the cached value; a miss goes to the store, returns None
\* when the store has no row under the key, and otherwise caches the store's
\* row and returns it.  Only that insert changes the cache.
ReadsThrough(c, op, get, query, insert, key, cache, cache_next, rows) ==
    (/\ callers[c].pc \in { get, query, insert }
     /\ callers[c].op = op
     /\ callers'[c] # callers[c]) =>
        CASE callers[c].pc = get ->
                /\ cache_next = cache
                /\ IF key \in DOMAIN cache
                   THEN /\ callers'[c].pc = "returned"
                        /\ callers'[c].ret = Ok(Some(cache[key]))
                   ELSE callers'[c].pc = query
          [] callers[c].pc = query ->
                /\ cache_next = cache
                /\ \/ callers'[c].pc = "returned" /\ ~callers'[c].ret.ok
                   \/ /\ rows = {}
                      /\ callers'[c].pc = "returned"
                      /\ callers'[c].ret = Ok(None)
                   \/ /\ rows # {}
                      /\ callers'[c].pc = insert
                      /\ callers'[c].row.some
                      /\ callers'[c].row.val \in rows
          [] callers[c].pc = insert ->
                /\ cache_next = (key :> callers[c].row.val) @@ cache
                /\ callers'[c].pc = "returned"
                /\ callers'[c].ret = Ok(callers[c].row)

\* The rows the web_sessions table has held: it only loses rows.
SessionsHeld == { WebSession("s1", 1) }

\* Every cache entry is a row the store has held under the entry's key.
CachesHoldCopies ==
    /\ \A k \in DOMAIN users_cache :
          users_cache[k] \in users_held /\ users_cache[k].id = k
    /\ \A k \in DOMAIN web_sessions_cache :
          web_sessions_cache[k] \in SessionsHeld /\ web_sessions_cache[k].session_id = k
    /\ \A k \in DOMAIN channels_cache : channels_cache[k] \in ChannelRows(Db, k)

\* C28: get_user_by_id, get_web_session and get_channel return the cached value
\* on a hit; on a miss they return the store's row, or None, and cache the row
\* if and only if there is one; so every cache entry is a copy of a row the
\* store has held under that key.
C28_CachesReadThrough ==
    /\ []CachesHoldCopies
    /\ [][\A c \in Callers :
            /\ ReadsThrough(c, "get_user_by_id", "id_get", "id_query", "id_insert",
                            callers[c].id, users_cache, users_cache',
                            { u \in users : u.id = callers[c].id })
            /\ ReadsThrough(c, "get_web_session", "session_get", "session_query",
                            "session_insert", callers[c].arg, web_sessions_cache,
                            web_sessions_cache',
                            { s \in web_sessions : s.session_id = callers[c].arg })
            /\ ReadsThrough(c, "get_channel", "channel_get", "channel_query",
                            "channel_insert", callers[c].arg, channels_cache,
                            channels_cache', ChannelRows(Db, callers[c].arg))]_vars

\* The users cache holds the row of B, cached by a lookup that missed, after
\* merge_users has deleted it from the store; a removed session is cached too.
C28_Witness ==
    /\ \E c \in Callers :
          /\ callers[c].pc = "returned"
          /\ callers[c].op = "get_user_by_id"
          /\ ~callers[c].hit
          /\ callers[c].ret = Ok(Some(UserB))
    /\ 2 \in DOMAIN users_cache
    /\ UserB \notin users
    /\ "s1" \in DOMAIN web_sessions_cache
    /\ web_sessions = {}

(***************************************************************************)
(* The aliases and the uniqueness of stored commands, under Spec.          *)
(***************************************************************************)
\* The argument lists, contexts and store connections an alias is tried with.
AliasArguments ==
    { <<>>, <<<<"hi">>>>, <<<<"hi">>, <<"yo">>>>, <<<<"hi">>, <<"$">>>>,
      <<<<"whoami">>, <<"yo">>>>, <<<<"ping">>, <<"yo">>>> }
AliasContexts == { Context(l, m) : l \in ChannelLogins, m \in BOOLEAN }

\* On the present store, the alias with the arguments returns what `command`
\* does with the subcommand put before them, and leaves the same store.
SameAsCommand(alias, subcommand) ==
    \A arguments \in AliasArguments, context \in AliasContexts, up \in BOOLEAN :
        With(run_command(Db, up, now, alias, arguments, TwitchID("7"), context),
             LAMBDA a :
                With(run_command(Db, up, now, <<"command">>,
                                 <<subcommand>> \o arguments, TwitchID("7"), context),
                     LAMBDA c : a.ret = c.ret /\ a.db = c.db))

\* C29: in every state of the store, addcmd and cmdadd with any arguments
\* reply and change the store as `command add` with the same arguments does,
\* and delcmd and cmddel as `command remove` does.
C29_AliasesAreRewritten ==
    /\ SameAsCommand(<<"addcmd">>, <<"add">>)
    /\ SameAsCommand(<<"cmdadd">>, <<"add">>)
    /\ SameAsCommand(<<"delcmd">>, <<"remove">>)
    /\ SameAsCommand(<<"cmddel">>, <<"remove">>)

\* The last dispatch was an alias that added a command, which delcmd would
\* now remove.
C29_Witness ==
    /\ last.seen
    /\ last.text = W(<<"cmdadd", "hi", "yo">>)
    /\ last.after.commands # last.before.commands
    /\ run_command(Db, TRUE, now, <<"delcmd">>, <<<<"hi">>>>, TwitchID("7"),
                   Context("a", TRUE)).db.commands # commands

\* The last dispatch was a moderator's addition, with the store reachable, of
\* a name the channel already had a command under.
AddedAgain ==
    /\ last.seen
    /\ last.up
    /\ last.context.permissions = "ChannelMod"
    /\ \E name \in AddedNames(last.text) : StoredIn(last.before, last.context, name) # {}

WithGuildCommand(db) ==
    LET id == Cardinality(db.channels) + 1
    IN  [db EXCEPT !.channels = @ \cup {[id |-> id, platform |-> "discord", channel |-> "a"]},
                   !.commands = @ \cup {NewCommand(<<"hi">>, <<"guild">>, None, id,
                                                   DefaultCooldown)}]

LookupChannels ==
    { TwitchChannelName(l) : l \in ChannelLogins } \cup { DiscordGuildID("a") }

\* In the store db every lookup returns a command of a channel row that has
\* the identifier's platform and channel string.
ResolvedInOwnChannel(db) ==
    \A ci \in LookupChannels, name \in { <<"hi">>, <<"whoami">> } :
        With(get_command(db, TRUE, ci, name), LAMBDA r :
            r.ret.val.some =>
                \E ch \in db.channels :
                    /\ ch.id = r.ret.val.val.channel_id
                    /\ ch.platform = ci.platform
                    /\ Some(ch.channel) = ci.channel)

\* C31: get_command returns a command only of a channel row that has the
\* platform and the channel string of the identifier it is given, also when
\* another platform holds a channel of the same name with a command of the
\* same name; and a dispatch runs a stored command's action only when the
\* command is stored for the context's channel.
C31_ResolvedInOwnChannel ==
    /\ ResolvedInOwnChannel(Db)
    /\ ResolvedInOwnChannel(WithGuildCommand(Db))
    /\ (last.seen /\ "execute_command_action" \in Range(last.calls)) =>
          StoredIn(last.before, last.context, Token(last.text)) # {}

\* Channel "a" holds the command "hi"; it was sent in channel "b", which holds
\* none, and got no reply; with the guild's command beside it, channel "a"
\* still resolves its own and the guild the guild's.
C31_Witness ==
    /\ last.seen
    /\ last.text = W(<<"hi">>)
    /\ last.context = Context("b", FALSE)
    /\ last.up
    /\ StoredIn(last.before, Context("a", FALSE), <<"hi">>) # {}
    /\ last.sent = None
    /\ get_command(WithGuildCommand(Db), TRUE, TwitchChannelName("a"),
                   <<"hi">>).ret.val.val.action = <<"yo">>
    /\ get_command(WithGuildCommand(Db), TRUE, DiscordGuildID("a"),
                   <<"hi">>).ret.val.val.action = <<"guild">>

\* The tables and caches are as the call of send_to_channel found them.
SendLeftStore ==
    /\ Db = EmptyDb
    /\ user_data = {} /\ web_sessions = {} /\ users_held = {}
    /\ web_sessions_cache = <<>> /\ channels_cache = <<>>

\* C32: a call of send_to_channel calls publish at most once; when the publish
\* fails the call has made that one attempt, returns the PlatformError, has
\* published nothing, and leaves every table, cache and filter as it was.
C32_FailedPublishIsReturned ==
    /\ [](send.seen =>
            /\ send.attempts <= 1
            /\ ~send.bus_up =>
                  /\ send.attempts = 1
                  /\ send.ret = Err(PlatformError("connection lost"))
                  /\ bus = <<>>
                  /\ SendLeftStore)
    /\ [][filters' = filters]_vars

\* A text the channel's filter rewrites was sent while the bus was down.
C32_Witness ==
    /\ send.seen
    /\ ~send.bus_up
    /\ send.msg = <<"bad", " ">>
    /\ send.contents = <<"ok", " ">>
    /\ send.ret = Err(PlatformError("connection lost"))
    /\ bus = <<>>

(***************************************************************************)
(* The store's command functions called in any order, under SpecCommands.  *)
(***************************************************************************)
CommandNames == { <<"hi">>, <<"ping">> }
CommandRows ==
    { NewCommand(name, <<"ya">>, Some("channel_mod"), id, DefaultCooldown) :
        name \in CommandNames, id \in 1..Cardinality(ChannelLogins) }

\* What a call of a store function found, returned and left.
Called(op, channel_id, name, up, r) ==
    [seen |-> TRUE, op |-> op, channel_id |-> channel_id, name |-> name, up |-> up,
     before |-> Db, after |-> r.db, ret |-> r.ret]

AddCommandToChannel(channel_login, trigger, action) ==
    \E r \in { add_command_to_channel(Db, TRUE, TwitchChannelName(channel_login),
                                       trigger, action) } :
        /\ SetStore(r.db)
        /\ last' = Called("add_command_to_channel", 0, trigger, TRUE, r)
        /\ UNCHANGED <<now, tasks, replies, handlerVars, lookupVars>>

DeleteCommand(channel_id, command_name, up) ==
    \E r \in { delete_command(Db, up, channel_id, command_name) } :
        /\ SetStore(r.db)
        /\ last' = Called("delete_command", channel_id, command_name, up, r)
        /\ UNCHANGED <<now, tasks, replies, handlerVars, lookupVars>>

NextCommands ==
    \/ \E channel_login \in ChannelLogins, trigger \in CommandNames :
            AddCommandToChannel(channel_login, trigger, <<"yo">>)
    \/ \E command \in CommandRows : UpdateCommand(command)
    \/ \E channel_id \in 1..Cardinality(ChannelLogins), command_name \in CommandNames,
          up \in BOOLEAN :
            DeleteCommand(channel_id, command_name, up)

SpecCommands == Init /\ [][NextCommands]_vars

\* C33: no stored command has a name of the built-in name list, whatever
\* sequence of add_command_to_channel, update_command and delete_command has
\* run.
C33_NoBuiltinNameStored ==
    \A c \in commands : c.name \notin BUILTIN_COMMANDS

\* The commands the last call's channel id held under the name it was given.
Named == { c \in last.before.commands :
             c.channel_id = last.channel_id /\ c.name = last.name }

\* On the present store, a moderator's `delcmd name` in the channel returns and
\* leaves what delete_command does for the channel's commands of that name.
RemovedByCmd(channel_login, name) ==
    With(run_command(Db, TRUE, now, <<"delcmd">>, <<name>>, TwitchID("7"),
                     Context(channel_login, TRUE)), LAMBDA r :
        With(StoredIn(Db, Context(channel_login, TRUE), name), LAMBDA rows :
            IF rows = {}
            THEN r.ret = Err(DatabaseError(InvalidValue)) /\ r.db.commands = commands
            ELSE /\ r.ret = Ok(Some(<<"Command succesfully removed">>))
                 /\ r.db.commands = commands \ rows
                 /\ Cardinality(rows) = 1))

\* C38: delete_command for a channel id and a name under which the channel
\* holds no command returns InvalidValue and leaves the store as it was; for a
\* name it holds a command under, it returns Ok and has removed that one
\* command and nothing else; `command remove` gives the same through the
\* dispatcher.
C38_DeleteRemovesOne ==
    /\ (last.seen /\ last.op = "delete_command" /\ last.up) =>
          IF Named = {}
          THEN last.ret = Err(InvalidValue) /\ last.after = last.before
          ELSE /\ last.ret = Ok(<<>>)
               /\ Cardinality(Named) = 1
               /\ last.after = [last.before EXCEPT !.commands = @ \ Named]
    /\ \A channel_login \in ChannelLogins, name \in CommandNames :
          RemovedByCmd(channel_login, name)

\* Both channels held a command "hi"; the call removed channel 1's.
C38_Witness ==
    /\ last.seen /\ last.op = "delete_command" /\ last.up
    /\ last.channel_id = 1 /\ last.name = <<"hi">>
    /\ Cardinality({ c \in last.before.commands : c.name = <<"hi">> }) = 2
    /\ Cardinality(last.before.commands) = 3
    /\ Cardinality(commands) = 2
    /\ \E c \in commands : c.name = <<"hi">> /\ c.channel_id = 2

\* A call of remove_web_session for the session has returned Ok.
Removed(session_id) ==
    \E c \in Callers :
        /\ callers[c].pc = "returned"
        /\ callers[c].op = "remove_web_session"
        /\ callers[c].arg = session_id
        /\ callers[c].ret.ok

\* C35: once remove_web_session has returned for a session, the session cache
\* holds no entry for it, so that get_web_session returns no session, however
\* the removal was interleaved with calls of get_web_session that began
\* before it.
C35_RemovedSessionIsGone ==
    Removed("s1") =>
        /\ "s1" \notin DOMAIN web_sessions_cache
        /\ \A s \in Range(web_sessions_cache) : s \in web_sessions

\* C36: once merge_users has returned, the users cache holds no entry under
\* the dropped user's id, and under the kept user's id none but the merged row,
\* however the merge was interleaved with calls of get_user_by_id.
C36_MergedCacheIsFresh ==
    merger.pc = "done" =>
        /\ merger.other.id \notin DOMAIN users_cache
        /\ merger.user.id \in DOMAIN users_cache =>
              users_cache[merger.user.id] = merger.user

\* C39: execute_command_action returns None for the empty action only: for
\* every action of at least one character it returns a message of at least one
\* character, and for an action that holds an inquiry a message that holds the
\* space put after the inquiry, also when the inquiry expands to nothing.
C39_NoneOnlyForEmptyAction ==
    Returned2(interp) =>
        /\ interp.result = Ok(None) <=> interp.action = <<>>
        /\ interp.action # <<>> =>
              /\ interp.result.ok
              /\ interp.result.val.some
              /\ Len(interp.result.val.val) >= 1
              /\ HasInquiry(interp.action) => " " \in Range(interp.result.val.val)

\* An action made of one inquiry with no name returned a single space.
C39_Witness ==
    /\ Returned2(interp)
    /\ interp.action = <<"$">>
    /\ interp.result = Ok(Some(<<" ">>))

(***************************************************************************)
(* get_or_create_channel called by two threads beside                      *)
(* load_channels_into_redis, one statement or redis command per step,      *)
(* under SpecChannels.                                                     *)
(***************************************************************************)
\* What the steps of these threads leave alone.
ChannelsFrame ==
    UNCHANGED <<commands, users, users_cache, user_identifiers_cache, now, last, tasks,
                replies, interp, filters, send, user_data, web_sessions,
                web_sessions_cache, channels_cache, users_held, merger>>

\* A thread calls get_or_create_channel.
ChanCall(c, channel_identifier) ==
    /\ callers[c].pc = "idle"
    /\ callers' = [callers EXCEPT ![c] =
                      [pc |-> IF get_platform_name(channel_identifier).some
                              THEN "chan_query" ELSE "returned",
                       op |-> "get_or_create_channel", arg |-> channel_identifier,
                       ret |-> Ok(None)]]
    /\ UNCHANGED <<channels, redis_channels, loader, bus>>
    /\ ChannelsFrame

\* get_or_create_channel: the first query
ChanQuery(c, up) ==
    /\ callers[c].pc = "chan_query"
    /\ callers' = [callers EXCEPT ![c] =
                      IF ~up
                      THEN [@ EXCEPT !.pc = "returned",
                                     !.ret = Err(DieselError("connection lost"))]
                      ELSE IF ChannelRows(Db, callers[c].arg) # {}
                      THEN [@ EXCEPT !.pc = "returned",
                                     !.ret = Ok(Some(first_row(
                                                 ChannelRows(Db, callers[c].arg))))]
                      ELSE [@ EXCEPT !.pc = "chan_create"]]
    /\ UNCHANGED <<channels, redis_channels, loader, bus>>
    /\ ChannelsFrame

\* get_or_create_channel: the insert.  The table's definition is not part of
\* the sources: a row for a pair that already has a row is either refused,
\* and the expect panics, or stored next to the other.
ChanCreate(c, unique) ==
    /\ callers[c].pc = "chan_create"
    /\ IF unique /\ ChannelRows(Db, callers[c].arg) # {}
       THEN /\ callers' = [callers EXCEPT ![c] = [@ EXCEPT !.pc = "panicked"]]
            /\ UNCHANGED channels
       ELSE /\ channels' = channels \cup
                   { [id |-> Cardinality(channels) + 1,
                      platform |-> get_platform_name(callers[c].arg).val,
                      channel |-> unwrap_or_default(get_channel(callers[c].arg))] }
            /\ callers' = [callers EXCEPT ![c] = [@ EXCEPT !.pc = "chan_sadd"]]
    /\ UNCHANGED <<redis_channels, loader, bus>>
    /\ ChannelsFrame

\* get_or_create_channel: sadd of the channel to "channels:{platform}"
ChanSadd(c, bus_up) ==
    /\ callers[c].pc = "chan_sadd"
    /\ IF bus_up
       THEN /\ redis_channels' =
                   [redis_channels EXCEPT ![get_platform_name(callers[c].arg).val] =
                       @ \cup { unwrap_or_default(get_channel(callers[c].arg)) }]
            /\ callers' = [callers EXCEPT ![c] = [@ EXCEPT !.pc = "chan_select"]]
       ELSE /\ callers' = [callers EXCEPT ![c] =
                              [@ EXCEPT !.pc = "returned",
                                        !.ret = Err([kind |-> "RedisError",
                                                     cause |-> "connection lost"])]]
            /\ UNCHANGED redis_channels
    /\ UNCHANGED <<channels, loader, bus>>
    /\ ChannelsFrame

\* get_or_create_channel: the query for the row it inserted
ChanSelect(c, up) ==
    /\ callers[c].pc = "chan_select"
    /\ callers' = [callers EXCEPT ![c] =
                      IF up
                      THEN [@ EXCEPT !.pc = "returned",
                                     !.ret = Ok(Some(first_row(
                                                 ChannelRows(Db, callers[c].arg))))]
                      ELSE [@ EXCEPT !.pc = "returned",
                                     !.ret = Err(DieselError("connection lost"))]]
    /\ UNCHANGED <<channels, redis_channels, loader, bus>>
    /\ ChannelsFrame

\* The loader, returned from load_channels_into_redis with ret.
Loaded(ret) == [pc |-> "done", ret |-> ret]

\* load_channels_into_redis: get_channels, grouped by platform
LoadRead(up) ==
    /\ loader.pc = "idle"
    /\ loader' = IF ~up THEN Loaded(Err(DieselError("connection lost")))
                 ELSE IF { ch \in channels : ch.platform = "twitch" } = {}
                 THEN Loaded(Ok(<<>>))
                 ELSE [pc |-> "load_del",
                       platform_chanels |->
                           { ch.channel : ch \in { r \in channels : r.platform = "twitch" } }]
    /\ UNCHANGED <<channels, redis_channels, callers, bus>>
    /\ ChannelsFrame

\* load_channels_into_redis: del of "channels:{platform}"
LoadDel(bus_up) ==
    /\ loader.pc = "load_del"
    /\ IF bus_up
       THEN /\ redis_channels' = [redis_channels EXCEPT !["twitch"] = {}]
            /\ loader' = [loader EXCEPT !.pc = "load_sadd"]
       ELSE /\ loader' = Loaded(Err([kind |-> "RedisError", cause |-> "connection lost"]))
            /\ UNCHANGED redis_channels
    /\ UNCHANGED <<channels, callers, bus>>
    /\ ChannelsFrame

\* load_channels_into_redis: sadd of the channels it read
LoadSadd(bus_up) ==
    /\ loader.pc = "load_sadd"
    /\ IF bus_up
       THEN /\ redis_channels' =
                   [redis_channels EXCEPT !["twitch"] = @ \cup loader.platform_chanels]
            /\ loader' = [loader EXCEPT !.pc = "load_publish"]
       ELSE /\ loader' = Loaded(Err([kind |-> "RedisError", cause |-> "connection lost"]))
            /\ UNCHANGED redis_channels
    /\ UNCHANGED <<channels, callers, bus>>
    /\ ChannelsFrame

\* load_channels_into_redis: publish on "channels.update.{platform}"
LoadPublish(bus_up) ==
    /\ loader.pc = "load_publish"
    /\ IF bus_up
       THEN /\ bus' = Append(bus, [topic |-> <<"channels.update.", "twitch">>,
                                   message |-> "Channel list updated"])
            /\ loader' = Loaded(Ok(<<>>))
       ELSE /\ loader' = Loaded(Err([kind |-> "RedisError", cause |-> "connection lost"]))
            /\ UNCHANGED bus
    /\ UNCHANGED <<channels, redis_channels, callers>>
    /\ ChannelsFrame

\* The store holds channel "a"; the redis set is empty, or holds it.
InitChannels ==
    /\ \E names \in { {}, { "a" } } :
          StartsWith([EmptyDb EXCEPT
                         !.channels = { [id |-> 1, platform |-> "twitch", channel |-> "a"] },
                         !.redis_channels = [p \in { "twitch" } |-> names]])
    /\ replies = NoReplies
    /\ filters = NoFilters
    /\ HandlerIdle

NextChannels ==
    \/ \E c \in Callers, l \in ChannelLogins : ChanCall(c, TwitchChannelName(l))
    \/ \E c \in Callers, up \in BOOLEAN : ChanQuery(c, up)
    \/ \E c \in Callers, unique \in BOOLEAN : ChanCreate(c, unique)
    \/ \E c \in Callers, bus_up \in BOOLEAN : ChanSadd(c, bus_up)
    \/ \E c \in Callers, up \in BOOLEAN : ChanSelect(c, up)
    \/ \E up \in BOOLEAN : LoadRead(up)
    \/ \E bus_up \in BOOLEAN : LoadDel(bus_up)
    \/ \E bus_up \in BOOLEAN : LoadSadd(bus_up)
    \/ \E bus_up \in BOOLEAN : LoadPublish(bus_up)

SpecChannels == InitChannels /\ [][NextChannels]_vars

\* No call of get_or_create_channel is under way.
ChannelCallsEnded == \A c \in Callers : callers[c].pc \in { "idle", "returned", "panicked" }

\* C34: when the calls of get_or_create_channel have ended, however they were
\* interleaved, the store holds one row per (platform, channel string), no
\* call has panicked, every call that the store and redis answered returned
\* the row of its pair, and the rows the store held are still there.
C34_OneRowPerChannel ==
    ChannelCallsEnded =>
        /\ \A x, y \in channels :
              (x.platform = y.platform /\ x.channel = y.channel) => x = y
        /\ \A c \in Callers :
              /\ callers[c].pc # "panicked"
              /\ (callers[c].pc = "returned" /\ callers[c].ret.ok) =>
                    /\ callers[c].ret.val.some
                    /\ ChannelRows(Db, callers[c].arg) = { callers[c].ret.val.val }
        /\ [id |-> 1, platform |-> "twitch", channel |-> "a"] \in channels

\* C37: when load_channels_into_redis and the calls of get_or_create_channel
\* have returned without an error, the redis set of the platform holds the
\* channel string of every row the store holds for the platform.
C37_LoadedSetHoldsEveryChannel ==
    (/\ loader.pc = "done" /\ loader.ret.ok
     /\ \A c \in Callers :
           callers[c].pc = "idle" \/ (callers[c].pc = "returned" /\ callers[c].ret.ok)) =>
        \A ch \in channels : ch.channel \in redis_channels[ch.platform]

====
